---------------------------- MODULE Spec2Model ----------------------------
(***************************************************************************)
(* A model of the geminal wavefunction core of fanpy:                      *)
(*   - the bitmask Slater-determinant algebra (slater_det),                *)
(*   - the projection-space generators (APIG, AP1roG, prowl),              *)
(*   - the permanent and its single-entry derivative,                      *)
(*   - the overlap and Hamiltonian-integration engines,                    *)
(*   - the nonlinear system (residual + Jacobian) and the solve call that  *)
(*     hands it to the external root-finder.                               *)
(*                                                                         *)
(* Numbers are integers.  Every quantity the code computes here is a       *)
(* polynomial in the coefficients and the integrals; the one division      *)
(* (the /2.0 of the APIG derivative-mode overlap) is exact for the one-    *)
(* and two-pair wavefunctions the solve machine draws, where the value it  *)
(* halves is 2 or twice a coefficient.                                     *)
(* Indices are 0-based as in the code; a matrix is a function              *)
(* [0..P-1 -> [0..K-1 -> Int]], a vector a function [0..n-1 -> Int], and a *)
(* Python list or tuple a TLA+ sequence.                                   *)
(***************************************************************************)
EXTENDS Integers, Sequences, FiniteSets, TLC

VARIABLES
    \* ---- projection-space generation (generate_pspace), one run --------
    g_kind,         \* which generator runs: "APIG" | "AP1roG" | "prowl"
    g_npairs,       \* self.npairs           (prowl: self.n // 2 = self.p)
    g_norbs,        \* self.norbs            (prowl: self.k)
    list_sd,        \* the running determinant list (list_sd / pspace)
    num_excited,    \* excitation order of the next while-iteration (nexc)
    g_pc,           \* "pairs" | "check" | "done" | "failed" | "off"
    g_out,          \* the returned tuple (<<>> until returned)
    g_pairs_len,    \* len(list_sd) when the pair stage ended (-1 before)
    g_singles,      \* TRUE once the spin-breaking singles were appended
    g_iters,        \* number of while-iterations executed so far
    \* ---- a wavefunction object and its solve call ----------------------
    system,         \* which nonlinear system: "geminal" | "prowl" | "wfns" | "off"
    cls,            \* class of the geminal object: "APIG" | "AP1roG"
    w_npairs,       \* self._npairs
    w_norbs,        \* self._norbs
    ham,            \* self._ham: [one, two]
    pspace,         \* self._pspace
    coeffs,         \* self._coeffs (None before the first successful solve)
    olp_attr,       \* the callable bound to self.overlap
    pc,             \* "idle" | "solving" (inside scipy's root)
    w_proj,         \* the proj list handed to the solver
    jac_given,      \* whether jac=self.nonlin_jac was handed to the solver
    x_last,         \* the trial vector of the last callback
    vec_last,       \* the residual the last nonlin call returned
    jac_last,       \* the matrix the last nonlin_jac call returned
    nfev,           \* residual evaluations of this solve
    njev,           \* Jacobian evaluations of this solve
    result,         \* outcome of the last call: "none" | "success" | "failure" | "raised"
    result_x,       \* result['x'] of the last call
    notice,         \* the last call printed the non-convergence warning
    coeffs_before,  \* self._coeffs when the current/last call was entered
    last_op,        \* the handler that ran last
    \* ---- the stored parameters of the other two nonlinear systems ------
    stored_x,       \* prowl: self.x;  wfns: the wavefunction's params
    \* ---- one call of a function of the numeric core --------------------
    fn_in,          \* the arguments of the call
    fn_out,         \* what the call returned (None until it returns)
    fn_pc,          \* "input" | "done" | "off"
    \* ---- a composite wavefunction and the locals of a running loop -----
    w_self,         \* the composite wavefunction: [nelec, nspin, params]
    cache_fns,      \* self._cache_fns: the memo tables of the cached functions
    frame           \* the local variables of the loop that is running

genVars == <<g_kind, g_npairs, g_norbs, list_sd, num_excited, g_pc, g_out,
             g_pairs_len, g_singles, g_iters>>

objVars == <<system, cls, w_npairs, w_norbs, ham, pspace>>

solveVars == <<coeffs, olp_attr, pc, w_proj, jac_given, x_last, vec_last, jac_last,
               nfev, njev, result, result_x, notice, coeffs_before,
               last_op, stored_x>>

fnVars == <<fn_in, fn_out, fn_pc>>

wfnVars == <<w_self, cache_fns, frame>>

vars == <<genVars, objVars, solveVars, fnVars, wfnVars>>

-----------------------------------------------------------------------------
(* Bounds of the model *)

\* largest number of spatial orbitals a generator run is started with
MaxOrbs == 6
\* largest number of electron pairs a generator run is started with
MaxPairs == 3
\* largest set whose iteration order (tuple(set(..))) is enumerated
MaxSetOrder == 4
\* largest number of free coefficients of a solved wavefunction
MaxParams == 3
\* largest AP1roG projection space of a solved wavefunction
SolveMaxSet == 2
\* trial vectors are a + (a + 1)*k with a in 0..MaxCoeff
MaxCoeff == 1
\* largest matrix handed to permanent / permanent_derivative
MaxPermDim == 3
\* matrix entries are e + a*r + b*c + d*r*c with e, a, b, d in 0..MaxEntry
MaxEntry == 1
\* largest number of spatial orbitals of an AP1roG overlap call
OlpMaxOrbs == 6
\* largest number of spatial orbitals of an APIG overlap call
ApigOlpMaxOrbs == 4
\* callbacks of each kind the solver makes in one solve
MaxEvals == 2
\* largest number of orbitals of the integrals handed to an assignment
MaxIntOrbs == 2
\* largest number of rows and of columns of a Cauchy matrix, and largest
\* value of its parameters
MaxCauchyDim == 2

-----------------------------------------------------------------------------
(* Generic helpers *)

Min2(a, b) == IF a <= b THEN a ELSE b
Max2(a, b) == IF a >= b THEN a ELSE b
SetMin(S) == CHOOSE x \in S : \A y \in S : x <= y

RECURSIVE SeqSum(_)
SeqSum(s) == IF s = <<>> THEN 0 ELSE Head(s) + SeqSum(Tail(s))

\* the elements of a sequence
Range(s) == {s[k] : k \in 1..Len(s)}

\* len(l) == len(set(l))
NoDuplicates(s) == \A a, b \in 1..Len(s) : a # b => s[a] # s[b]

\* l[:n]
Take(s, n) == SubSeq(s, 1, Min2(n, Len(s)))

\* list(reversed(l))
Reverse(s) == [k \in 1..Len(s) |-> s[Len(s) + 1 - k]]

\* [i for i in range(lo, hi) if P(i)] for the set S of the i that satisfy P
RECURSIVE Ascending(_)
Ascending(S) ==
    IF S = {} THEN <<>> ELSE LET m == SetMin(S) IN <<m>> \o Ascending(S \ {m})

\* every ordering of a finite set (the orders a set iteration may produce)
Orderings(S) ==
    {s \in [1..Cardinality(S) -> S] : \A a, b \in 1..Cardinality(S) : a # b => s[a] # s[b]}

\* [(a, b) for a in A for b in B]
Product(A, B) ==
    [k \in 1..(Len(A) * Len(B)) |->
        <<A[((k - 1) \div Len(B)) + 1], B[((k - 1) % Len(B)) + 1]>>]

\* prepend x to every sequence of ss
RECURSIVE ConsAll(_, _)
ConsAll(x, ss) ==
    IF ss = <<>> THEN <<>> ELSE <<(<<x>> \o Head(ss))>> \o ConsAll(x, Tail(ss))

\* itertools.combinations(s, r), in itertools' order
RECURSIVE combinations(_, _)
combinations(s, r) ==
    IF r = 0 THEN << <<>> >>
    ELSE IF Len(s) < r THEN <<>>
    ELSE ConsAll(Head(s), combinations(Tail(s), r - 1)) \o combinations(Tail(s), r)

RECURSIVE factorial(_)
factorial(n) == IF n <= 0 THEN 1 ELSE n * factorial(n - 1)

\* num_combs = lambda n, r: n!/r!/(n-r)!   (exact for 0 <= r <= n)
num_combs(n, r) == (factorial(n) \div factorial(r)) \div factorial(n - r)

-----------------------------------------------------------------------------
(* slater_det: the bitmask algebra.  A determinant is a natural number;    *)
(* bit 2i is alpha spin-orbital i, bit 2i+1 beta spin-orbital i.           *)

is_occupied(sd, i) == (sd \div (2 ^ i)) % 2 = 1

is_pair_occupied(sd, i) == is_occupied(sd, 2 * i) /\ is_occupied(sd, 2 * i + 1)

\* both spin partners of spatial orbital i are empty
is_pair_empty(sd, i) == ~is_occupied(sd, 2 * i) /\ ~is_occupied(sd, 2 * i + 1)

\* number of electrons: bin(sd).count('1')
RECURSIVE popcount(_)
popcount(sd) == IF sd = 0 THEN 0 ELSE (sd % 2) + popcount(sd \div 2)

excite_orbs_mut(sd, i, j) ==
    IF is_occupied(sd, i) /\ (j = i \/ ~is_occupied(sd, j))
    THEN sd + (2 ^ j) ELSE 0

\* excite_orbs(sd, i, j): move the electron of spin-orbital i to j; 0 when i
\* is empty or j is occupied once i has been removed
excite_orbs(sd, i, j) ==
    IF is_occupied(sd, i) /\ (j = i \/ ~is_occupied(sd, j))
    THEN sd - (2 ^ i) + (2 ^ j)
    ELSE 0

PairBits(i) == (2 ^ (2 * i)) + (2 ^ (2 * i + 1))

\* excite_pairs(sd, *occs_virs): the first half of the indices are the pairs
\* removed, the second half the pairs added; 0 when a removed pair is not
\* fully occupied, an added pair is not fully empty, or an index repeats
excite_pairs(sd, occs, virs) ==
    IF /\ NoDuplicates(occs) /\ NoDuplicates(virs)
       /\ \A k \in 1..Len(occs) : is_pair_occupied(sd, occs[k])
       /\ \A k \in 1..Len(virs) :
            \/ is_pair_empty(sd, virs[k])
            \/ (is_pair_occupied(sd, virs[k]) /\ virs[k] \in Range(occs))
    THEN sd - SeqSum([k \in 1..Len(occs) |-> PairBits(occs[k])])
            + SeqSum([k \in 1..Len(virs) |-> PairBits(virs[k])])
    ELSE 0

\* a determinant with some spatial orbital singly occupied
IsSpinBroken(sd, norbs) ==
    \E i \in 0..(norbs - 1) : is_occupied(sd, 2 * i) # is_occupied(sd, 2 * i + 1)

-----------------------------------------------------------------------------
(* APIG.ground / hf_ground: int('1'*2*npairs, 2) *)

ground(npairs) == (2 ^ (2 * npairs)) - 1


-----------------------------------------------------------------------------
(* APIG.generate_pspace *)

\* num_needed = self.npairs*self.norbs+1
num_needed(npairs, norbs) == npairs * norbs + 1

\* ind_occ: occupied spatial orbitals of the ground state, HOMO first
APIG_ind_occ(npairs, norbs) ==
    Reverse(Ascending({i \in 0..(norbs - 1) : is_pair_occupied(ground(npairs), i)}))

\* ind_vir: virtual spatial orbitals of the ground state, LUMO first
APIG_ind_vir(npairs, norbs) ==
    Ascending({i \in 0..(norbs - 1) : ~is_pair_occupied(ground(npairs), i)})

\* the while condition of the pair stage
APIG_loop_cond(list, nexc, npairs, norbs) ==
    /\ Len(list) < num_needed(npairs, norbs)
    /\ nexc <= Len(APIG_ind_occ(npairs, norbs))

\* the for/else that picks num_frontier
APIG_num_frontier(list, npairs, norbs) ==
    LET nocc == Len(APIG_ind_occ(npairs, norbs))
        nvir == Len(APIG_ind_vir(npairs, norbs))
        fits == {i \in 2..nocc :
                    num_combs(i, 2) * num_combs(i, 2)
                        >= num_needed(npairs, norbs) - Len(list)}
    IN  IF fits # {} THEN SetMin(fits) ELSE Max2(nocc, nvir) + 1

APIG_pair_excitations_mut(list, nexc, npairs, norbs) ==
    LET nf   == APIG_num_frontier(list, npairs, norbs)
        occs == combinations(Take(APIG_ind_occ(npairs, norbs), nf), 1)
        virs == combinations(Take(APIG_ind_vir(npairs, norbs), nf), 1)
        ov   == Product(occs, virs)
    IN  [k \in 1..Len(ov) |-> excite_pairs(ground(npairs), ov[k][1], ov[k][2])]

\* the determinants one while-iteration appends
APIG_pair_excitations(list, nexc, npairs, norbs) ==
    LET nf   == APIG_num_frontier(list, npairs, norbs)
        occs == combinations(Take(APIG_ind_occ(npairs, norbs), nf), nexc)
        virs == combinations(Take(APIG_ind_vir(npairs, norbs), nf), nexc)
        ov   == Product(occs, virs)
    IN  [k \in 1..Len(ov) |-> excite_pairs(ground(npairs), ov[k][1], ov[k][2])]

\* the beta-to-alpha single excitations
spin_singles(npairs, occ, vir) ==
    LET ij == Product(occ, vir)
    IN  [k \in 1..Len(ij) |-> excite_orbs(ground(npairs), ij[k][1] * 2 + 1, ij[k][2] * 2)]

\* "if self.npairs <= 2": whether the singles are appended
APIG_adds_singles_mut(list, npairs, norbs) == FALSE
APIG_adds_singles(list, npairs, norbs) == npairs <= 2

APIG_after_singles(list, npairs, norbs) ==
    IF APIG_adds_singles(list, npairs, norbs)
    THEN list \o spin_singles(npairs, APIG_ind_occ(npairs, norbs),
                              APIG_ind_vir(npairs, norbs))
    ELSE list

\* the two assertions before the return
APIG_asserts_mut(list, npairs, norbs) == TRUE
APIG_asserts(list, npairs, norbs) ==
    /\ NoDuplicates(list)
    /\ Len(list) >= num_needed(npairs, norbs)

\* return tuple(list_sd[:num_needed])
APIG_truncate_mut(list, npairs, norbs) == list
APIG_truncate(list, npairs, norbs) == Take(list, num_needed(npairs, norbs))

\* the whole pair stage, from the seeded list
RECURSIVE APIG_pair_stage(_, _, _, _)
APIG_pair_stage(list, nexc, npairs, norbs) ==
    IF APIG_loop_cond(list, nexc, npairs, norbs)
    THEN APIG_pair_stage(list \o APIG_pair_excitations(list, nexc, npairs, norbs),
                         nexc + 1, npairs, norbs)
    ELSE list

\* the list on which generate_pspace runs its assertions
APIG_full_list(npairs, norbs) ==
    APIG_after_singles(APIG_pair_stage(<<ground(npairs)>>, 1, npairs, norbs),
                       npairs, norbs)

\* whether generate_pspace returns (rather than raising AssertionError)
APIG_generates(npairs, norbs) ==
    APIG_asserts(APIG_full_list(npairs, norbs), npairs, norbs)

\* the value generate_pspace returns when it returns
APIG_generate_pspace(npairs, norbs) ==
    APIG_truncate(APIG_full_list(npairs, norbs), npairs, norbs)

-----------------------------------------------------------------------------
(* AP1roG.generate_pspace *)

\* pspace before "Uniquify": the ground state, then every single pair
\* excitation, virtual-major
AP1roG_list(npairs, norbs) ==
    LET ui == Product(Ascending(npairs..(norbs - 1)), Ascending(0..(npairs - 1)))
    IN  <<ground(npairs)>> \o
        [k \in 1..Len(ui) |-> excite_pairs(ground(npairs), <<ui[k][2]>>, <<ui[k][1]>>)]

\* tuple(set(pspace)): the distinct entries in an order the set decides
AP1roG_orders_mut(npairs, norbs) == {AP1roG_list(npairs, norbs) \o <<ground(npairs)>>}
AP1roG_orders(npairs, norbs) == Orderings(Range(AP1roG_list(npairs, norbs)))

-----------------------------------------------------------------------------
(* prowl generate_pspace *)

\* params = self.x.size, x being the raveled p-by-k coefficient array
prowl_params(npairs, norbs) == npairs * norbs

\* occ = list(range(n // 2 - 1, -1, -1)); vir = list(range(n // 2, k))
prowl_occ(npairs, norbs) == Reverse(Ascending(0..(npairs - 1)))
prowl_vir(npairs, norbs) == Ascending(npairs..(norbs - 1))

\* while params > len(pspace) and nexc < nocc
prowl_loop_cond(list, nexc, npairs, norbs) ==
    /\ prowl_params(npairs, norbs) > Len(list)
    /\ nexc < Len(prowl_occ(npairs, norbs)) + 1

prowl_nfrontier(list, npairs, norbs) ==
    LET nocc == Len(prowl_occ(npairs, norbs)) + 1
        nvir == Len(prowl_vir(npairs, norbs)) + 1
        fits == {i \in 2..(nocc - 1) :
                    num_combs(i, 2) * num_combs(i, 2)
                        >= prowl_params(npairs, norbs) - Len(list)}
    IN  IF fits # {} THEN SetMin(fits) ELSE Max2(nocc, nvir)

\* sd = ground; for k, l in zip(i, j): sd = excite_pair(sd, k, l)
RECURSIVE prowl_zip_excite(_, _, _)
prowl_zip_excite(sd, i, j) ==
    IF i = <<>> \/ j = <<>> THEN sd
    ELSE prowl_zip_excite(excite_pairs(sd, <<Head(i)>>, <<Head(j)>>), Tail(i), Tail(j))

prowl_pair_excitations(list, nexc, npairs, norbs) ==
    LET nf == prowl_nfrontier(list, npairs, norbs)
        is == combinations(Take(prowl_occ(npairs, norbs), nf), nexc)
        js == combinations(Take(prowl_vir(npairs, norbs), nf), nexc)
        ij == Product(is, js)
    IN  [k \in 1..Len(ij) |-> prowl_zip_excite(ground(npairs), ij[k][1], ij[k][2])]

\* "if params > len(pspace)": whether the singles are appended
prowl_adds_singles(list, npairs, norbs) == prowl_params(npairs, norbs) > Len(list)

prowl_after_singles(list, npairs, norbs) ==
    IF prowl_adds_singles(list, npairs, norbs)
    THEN list \o spin_singles(npairs, prowl_occ(npairs, norbs), prowl_vir(npairs, norbs))
    ELSE list

\* pspace.sort(): ascending, duplicates kept
RECURSIVE sorted(_)
sorted(s) ==
    IF s = <<>> THEN <<>>
    ELSE LET m == SetMin(Range(s))
             k == CHOOSE k \in 1..Len(s) : s[k] = m
         IN  <<m>> \o sorted(SubSeq(s, 1, k - 1) \o SubSeq(s, k + 1, Len(s)))

prowl_sort_mut(s) == Reverse(sorted(s))
prowl_sort(s) == sorted(s)

-----------------------------------------------------------------------------
(* APIG.permanent and APIG.permanent_derivative *)

\* gem_coeff[:, ind_occ]: the columns named by the list ind_occ
columns(matrix, nrows, ind_occ) ==
    [r \in 0..(nrows - 1) |-> [c \in 0..(Len(ind_occ) - 1) |-> matrix[r][ind_occ[c + 1]]]]

\* the sum, over the assignments of the columns in cols to the rows r..n-1,
\* of the products of the entries
RECURSIVE perm_rows(_, _, _)
perm_rows(matrix, r, cols) ==
    IF cols = {} THEN 1
    ELSE LET cs == Ascending(cols)
         IN  SeqSum([k \in 1..Len(cs) |->
                        matrix[r][cs[k]] * perm_rows(matrix, r + 1, cols \ {cs[k]})])

\* permanent(matrix) of an n-by-n matrix: the sum over itertools.permutations
\* of the products matrix[row_indices, col_indices]
permanent(matrix, n) == perm_rows(matrix, 0, 0..(n - 1))

\* rows[0], rows[i] = rows[i], rows[0]
swap0(n, i) == [k \in 0..(n - 1) |-> IF k = 0 THEN i ELSE IF k = i THEN 0 ELSE k]

\* the product, over the rows 1..n-1, of permuted[row][col(row)]
RECURSIVE diag_prod(_, _, _, _, _, _)
diag_prod(matrix, rows, cols, n, row, left_going) ==
    IF row >= n THEN 1
    ELSE matrix[rows[row]][cols[IF left_going THEN n - row ELSE row]]
            * diag_prod(matrix, rows, cols, n, row + 1, left_going)

\* permanent_derivative(matrix, i, j) of an n-by-n matrix: prod_l + prod_r
permanent_derivative(matrix, n, i, j) ==
    LET rows == swap0(n, i)
        cols == swap0(n, j)
    IN  diag_prod(matrix, rows, cols, n, 1, TRUE) + diag_prod(matrix, rows, cols, n, 1, FALSE)

-----------------------------------------------------------------------------
(* The wavefunction object.  "self" is the record                          *)
(*   [cls, npairs, norbs, ham, pspace, overlap]                            *)
(* where overlap is the callable bound to self.overlap: <<"value">> for    *)
(* the class's own method, <<"deriv", i, j>> for the closure olp_der that  *)
(* nonlin_jac installs for the coefficient (i, j).                         *)

ValueMode == <<"value">>
DerivMode(i, j) == <<"deriv", i, j>>

\* _normalize
normalize(self) == self.cls = "APIG"

\* eqn_offset = int(self._normalize)
eqn_offset(self) == IF normalize(self) THEN 1 ELSE 0

\* _row_indices and _col_indices, as lists
row_indices(self) == Ascending(0..(self.npairs - 1))
col_indices(self) ==
    IF self.cls = "APIG" THEN Ascending(0..(self.norbs - 1))
    ELSE Ascending(self.npairs..(self.norbs - 1))

\* number of free coefficients: the size the coeffs setter asserts
nparams(self) ==
    IF self.cls = "APIG" THEN self.npairs * self.norbs
    ELSE self.npairs * (self.norbs - self.npairs)

\* [i for i in range(norbs) if is_pair_occupied(sd, i)]
occupied_pairs(sd, norbs) == Ascending({i \in 0..(norbs - 1) : is_pair_occupied(sd, i)})

\* ind_occ.index(j): 0-based position of j in the list
index_of(list, j) == (CHOOSE k \in 1..Len(list) : list[k] = j) - 1

\* the /2.0 of the derivative-mode overlap (exact on even values)
half_mut(v) == v
half(v) == v \div 2

\* APIG.overlap(slater_det, gem_coeff, derivative, indices)
APIG_overlap(self, sd, C, derivative, indices) ==
    IF popcount(sd) # 2 * self.npairs THEN 0
    ELSE IF IsSpinBroken(sd, self.norbs) THEN 0
    ELSE LET ind_occ == occupied_pairs(sd, self.norbs)
         IN  IF derivative
             THEN IF indices[2] \in Range(ind_occ)
                  THEN half(permanent_derivative(columns(C, self.npairs, ind_occ),
                                                 Len(ind_occ), indices[1],
                                                 index_of(ind_occ, indices[2])))
                  ELSE 0
             ELSE permanent(columns(C, self.npairs, ind_occ), Len(ind_occ))

\* AP1roG.overlap: from_index, to_index and excite_count
from_index(self, phi) ==
    Ascending({i \in 0..(self.npairs - 1) : ~is_pair_occupied(phi, i)})
to_index(self, phi) ==
    Ascending({i \in self.npairs..(self.norbs - 1) : is_pair_occupied(phi, i)})
excite_count(self, phi) == Len(from_index(self, phi))

\* AP1roG.overlap reaches "raise Exception(str(excite_count))"
AP1roG_overlap_flags_mut(self, phi) ==
    /\ phi # 0
    /\ excite_count(self, phi) > 2

AP1roG_overlap_flags(self, phi) ==
    /\ phi # 0
    /\ phi \in Range(self.pspace)
    /\ excite_count(self, phi) > 2

\* AP1roG.overlap reads to_index[0] or to_index[1] past the end of to_index
\* (IndexError): fewer virtual pairs are occupied than reference pairs are
\* empty
AP1roG_overlap_index_error(self, phi) ==
    /\ phi # 0
    /\ phi \in Range(self.pspace)
    /\ excite_count(self, phi) \in {1, 2}
    /\ Len(to_index(self, phi)) < excite_count(self, phi)

\* AP1roG.overlap does not return
AP1roG_overlap_raises(self, phi) ==
    AP1roG_overlap_flags(self, phi) \/ AP1roG_overlap_index_error(self, phi)

\* AP1roG.overlap(phi, matrix, derivative, indices), where it returns
AP1roG_overlap(self, phi, matrix, derivative, indices) ==
    IF phi = 0 THEN 0
    ELSE IF phi \notin Range(self.pspace) THEN 0
    ELSE LET f == from_index(self, phi)
             t == to_index(self, phi)
         IN  CASE excite_count(self, phi) = 0 ->
                    IF derivative
                    THEN (IF indices[1] = indices[2] THEN 1 ELSE 0)
                    ELSE 1
               [] excite_count(self, phi) = 1 ->
                    IF derivative
                    THEN (IF indices = <<f[1], t[1]>> THEN 1 ELSE 0)
                    ELSE matrix[f[1]][t[1]]
               [] excite_count(self, phi) = 2 ->
                    IF derivative
                    THEN (IF indices = <<f[1], t[1]>> THEN matrix[f[2]][t[2]]
                          ELSE IF indices = <<f[2], t[2]>> THEN matrix[f[1]][t[1]]
                          ELSE IF indices = <<f[1], t[2]>> THEN 0 - matrix[f[2]][t[1]]
                          ELSE IF indices = <<f[2], t[1]>> THEN 0 - matrix[f[1]][t[2]]
                          ELSE 0)
                    ELSE matrix[f[1]][t[1]] * matrix[f[2]][t[2]]
                            - matrix[f[1]][t[2]] * matrix[f[2]][t[1]]

\* the class's overlap method
class_overlap(self, sd, C, derivative, indices) ==
    IF self.cls = "APIG" THEN APIG_overlap(self, sd, C, derivative, indices)
    ELSE AP1roG_overlap(self, sd, C, derivative, indices)

\* self.overlap(sd, C): whatever is bound to the attribute
overlap(self, sd, C) ==
    IF self.overlap = ValueMode
    THEN class_overlap(self, sd, C, FALSE, <<>>)
    ELSE class_overlap(self, sd, C, TRUE, <<self.overlap[2], self.overlap[3]>>)

-----------------------------------------------------------------------------
(* APIG.phi_H_psi, double_phi_H_psi, brute_phi_H_psi *)

\* alpha_occ == beta_occ, over the whole bit string of slater_det
RECURSIVE alpha_equals_beta(_)
alpha_equals_beta(sd) ==
    IF sd = 0 THEN TRUE
    ELSE (sd % 2 = (sd \div 2) % 2) /\ alpha_equals_beta(sd \div 4)

double_phi_H_psi(self, sd, C) ==
    LET one == self.ham.one
        two == self.ham.two
        olp == overlap(self, sd, C)
        orbs == Ascending(0..(self.norbs - 1))
        occ(i) == is_pair_occupied(sd, i)
        one_elec_part ==
            SeqSum([k \in 1..Len(orbs) |->
                IF occ(orbs[k]) THEN 2 * one[orbs[k]][orbs[k]] * olp ELSE 0])
        coulomb ==
            SeqSum([k \in 1..Len(orbs) |->
                LET i == orbs[k] IN
                IF occ(i)
                THEN two[i][i][i][i] * olp
                     + SeqSum([m \in 1..Len(orbs) |->
                          LET j == orbs[m] IN
                          IF j > i /\ occ(j) THEN 4 * two[i][j][i][j] * olp ELSE 0])
                     + SeqSum([m \in 1..Len(orbs) |->
                          LET a == orbs[m] IN
                          IF ~occ(a)
                          THEN two[i][i][a][a]
                                 * overlap(self, excite_pairs(sd, <<i>>, <<a>>), C)
                          ELSE 0])
                ELSE 0])
        exchange ==
            SeqSum([k \in 1..Len(orbs) |->
                LET i == orbs[k] IN
                IF occ(i)
                THEN SeqSum([m \in 1..Len(orbs) |->
                          LET j == orbs[m] IN
                          IF j > i /\ occ(j) THEN 0 - 2 * two[i][j][j][i] * olp ELSE 0])
                ELSE 0])
    IN  one_elec_part + coulomb + exchange

\* the contribution of one (i, k, j, l) of the innermost loop
brute_term_mut(self, C, single_excitation, i, k, j, l) ==
    LET two == self.ham.two
        olp == overlap(self, excite_orbs(single_excitation, j, l), C)
    IN  IF olp = 0 THEN 0
        ELSE IF i % 2 = k % 2 /\ j % 2 = l % 2
             THEN two[i \div 2][j \div 2][k \div 2][l \div 2] * olp ELSE 0

brute_term(self, C, single_excitation, i, k, j, l) ==
    LET two == self.ham.two
        olp == overlap(self, excite_orbs(single_excitation, j, l), C)
    IN  IF olp = 0 THEN 0
        ELSE (IF i % 2 = k % 2 /\ j % 2 = l % 2
              THEN two[i \div 2][j \div 2][k \div 2][l \div 2] * olp ELSE 0)
             - (IF i % 2 = l % 2 /\ j % 2 = k % 2
                THEN two[i \div 2][j \div 2][l \div 2][k \div 2] * olp ELSE 0)

brute_phi_H_psi(self, sd, C) ==
    LET one == self.ham.one
        ind_occ == Ascending({i \in 0..(2 * self.norbs - 1) : is_occupied(sd, i)})
        ind_vir == {i \in 0..(2 * self.norbs - 1) : ~is_occupied(sd, i)}
        \* the body of "for i in ind_occ", at position a of ind_occ
        for_i(a) ==
            LET i == ind_occ[a]
                temp1_ind_vir == Ascending(ind_vir \cup {i})
                \* the body of "for k in temp1_ind_vir", at position b
                for_k(b) ==
                    LET k == temp1_ind_vir[b]
                        single_excitation == excite_orbs(sd, i, k)
                        later_occ == SubSeq(ind_occ, a + 1, Len(ind_occ))
                        for_j(c) ==
                            LET j == later_occ[c]
                                temp2_ind_vir ==
                                    sorted(<<j>> \o SubSeq(temp1_ind_vir, b + 1,
                                                           Len(temp1_ind_vir)))
                            IN  SeqSum([d \in 1..Len(temp2_ind_vir) |->
                                    brute_term(self, C, single_excitation, i, k, j,
                                               temp2_ind_vir[d])])
                    IN  (IF i % 2 = k % 2
                         THEN one[i \div 2][k \div 2] * overlap(self, single_excitation, C)
                         ELSE 0)
                        + SeqSum([c \in 1..Len(later_occ) |-> for_j(c)])
            IN  SeqSum([b \in 1..Len(temp1_ind_vir) |-> for_k(b)])
    IN  SeqSum([a \in 1..Len(ind_occ) |-> for_i(a)])

phi_H_psi(self, sd, C) ==
    IF alpha_equals_beta(sd) THEN double_phi_H_psi(self, sd, C)
    ELSE brute_phi_H_psi(self, sd, C)

-----------------------------------------------------------------------------
(* construct_guess, nonlin, nonlin_jac *)

\* x0.reshape(rows, cols)
reshape(x, rows, cols) ==
    [i \in 0..(rows - 1) |-> [j \in 0..(cols - 1) |-> x[i * cols + j]]]

\* np.eye(npairs, M=norbs) with value added to the virtual block
embed(self, x) ==
    [i \in 0..(self.npairs - 1) |-> [j \in 0..(self.norbs - 1) |->
        IF j < self.npairs THEN (IF i = j THEN 1 ELSE 0)
        ELSE x[i * (self.norbs - self.npairs) + (j - self.npairs)]]]

construct_guess(self, x0) ==
    IF self.cls = "APIG" THEN reshape(x0, self.npairs, self.norbs) ELSE embed(self, x0)

\* x0.size
size(x) == Cardinality(DOMAIN x)

\* nonlin(x0, proj): the residual vector, 0-based
nonlin(self, x0, proj) ==
    LET C == construct_guess(self, x0)
        energy == phi_H_psi(self, ground(self.npairs), C)
        off == eqn_offset(self)
    IN  [e \in 0..(size(x0) - 1) |->
            IF e < off
            THEN overlap(self, ground(self.npairs), C) - 1
            ELSE energy * overlap(self, proj[(e - off) + 1], C)
                    - phi_H_psi(self, proj[(e - off) + 1], C)]

\* the coefficient whose derivative column "count" of the Jacobian holds
coords_of(self, count) ==
    LET rc == Product(row_indices(self), col_indices(self)) IN rc[count + 1]

\* nonlin_jac(x0, proj): the matrix jac[row][count]
nonlin_jac(self, x0, proj) ==
    LET C == construct_guess(self, x0)
        energy == phi_H_psi(self, ground(self.npairs), C)
        phi_psi_tmp == [d \in 0..(size(x0) - 1) |-> overlap(self, proj[d + 1], C)]
        off == eqn_offset(self)
        der(count) == [self EXCEPT !.overlap =
                          DerivMode(coords_of(self, count)[1], coords_of(self, count)[2])]
    IN  [e \in 0..(size(x0) - 1) |-> [count \in 0..(size(x0) - 1) |->
            IF e < off
            THEN overlap(der(count), ground(self.npairs), C)
            ELSE phi_H_psi(der(count), ground(self.npairs), C) * phi_psi_tmp[e - off]
                    + energy * overlap(der(count), proj[(e - off) + 1], C)
                    - phi_H_psi(der(count), proj[(e - off) + 1], C)]]

\* the callable bound to self.overlap when nonlin_jac returns: the backed-up
\* tmp_olp
overlap_after_jac_mut(self) ==
    LET rc == Product(row_indices(self), col_indices(self))
    IN  IF rc = <<>> THEN self.overlap ELSE DerivMode(rc[Len(rc)][1], rc[Len(rc)][2])
overlap_after_jac(self) == self.overlap

-----------------------------------------------------------------------------
(* Values shared by the machines *)

\* Python's None, for an attribute that holds a matrix or a vector
None == <<>>

\* the trial vectors of size n the solver may propose
TrialVectors(n) ==
    {[k \in 0..(n - 1) |-> a + (a + 1) * k] : a \in 0..MaxCoeff}

\* a Hamiltonian the ham setter accepts: one symmetric, two with
\* <ij|kl> = <ji|lk> = <kl|ij>
test_ham(K) ==
    [one |-> [i \in 0..(K - 1) |-> [j \in 0..(K - 1) |-> i + j + 1]],
     two |-> [i \in 0..(K - 1) |-> [j \in 0..(K - 1) |->
                [k \in 0..(K - 1) |-> [l \in 0..(K - 1) |->
                    (i + 1) * (k + 1) + (j + 1) * (l + 1) + i + j + k + l]]]]]

\* no wavefunction object exists (the machine is not part of this run)
NoObject ==
    /\ system = "off" /\ cls = "none" /\ w_npairs = 0 /\ w_norbs = 0
    /\ ham = None /\ pspace = <<>>
    /\ coeffs = None /\ olp_attr = ValueMode /\ pc = "off" /\ w_proj = <<>>
    /\ jac_given = FALSE /\ x_last = None /\ vec_last = None /\ jac_last = None
    /\ nfev = 0 /\ njev = 0 /\ result = "none" /\ result_x = None
    /\ notice = FALSE /\ coeffs_before = None
    /\ last_op = "init" /\ stored_x = None

\* no function call is in progress (the machine is not part of this run)
NoCall == fn_in = None /\ fn_out = None /\ fn_pc = "off"

\* no composite wavefunction exists and no stepped loop runs
NoWavefunction == w_self = <<>> /\ cache_fns = <<>> /\ frame = <<>>

\* no generator run is in progress (the machine is not part of this run)
NoGenerator ==
    /\ g_kind = "none" /\ g_npairs = 0 /\ g_norbs = 0 /\ list_sd = <<>>
    /\ num_excited = 0 /\ g_pc = "off" /\ g_out = <<>> /\ g_pairs_len = -1
    /\ g_singles = FALSE /\ g_iters = 0

-----------------------------------------------------------------------------
(* The generator machine: one run of one generate_pspace, stepped at its   *)
(* while-iterations.                                                       *)

GenKinds == {"APIG", "AP1roG", "prowl"}

GenInit ==
    /\ NoWavefunction
    /\ g_kind \in GenKinds
    /\ g_norbs \in 1..MaxOrbs
    /\ g_npairs \in 1..Min2(MaxPairs, g_norbs)
    /\ g_kind = "AP1roG" => 1 + g_npairs * (g_norbs - g_npairs) <= MaxSetOrder
    /\ list_sd = <<ground(g_npairs)>>
    /\ num_excited = 1
    /\ g_pc = "pairs"
    /\ g_out = <<>>
    /\ g_pairs_len = -1
    /\ g_singles = FALSE
    /\ g_iters = 0
    /\ NoObject
    /\ NoCall

\* one iteration of the while loop of APIG.generate_pspace
APIG_Widen ==
    /\ g_kind = "APIG" /\ g_pc = "pairs"
    /\ APIG_loop_cond(list_sd, num_excited, g_npairs, g_norbs)
    /\ list_sd' = list_sd \o APIG_pair_excitations(list_sd, num_excited, g_npairs, g_norbs)
    /\ num_excited' = num_excited + 1
    /\ g_iters' = g_iters + 1
    /\ UNCHANGED <<g_kind, g_npairs, g_norbs, g_pc, g_out, g_pairs_len, g_singles>>
    /\ UNCHANGED <<objVars, solveVars, fnVars, wfnVars>>

\* loop exit, then the "if self.npairs <= 2" block
APIG_Singles ==
    /\ g_kind = "APIG" /\ g_pc = "pairs"
    /\ ~APIG_loop_cond(list_sd, num_excited, g_npairs, g_norbs)
    /\ g_pairs_len' = Len(list_sd)
    /\ g_singles' = APIG_adds_singles(list_sd, g_npairs, g_norbs)
    /\ list_sd' = APIG_after_singles(list_sd, g_npairs, g_norbs)
    /\ g_pc' = "check"
    /\ UNCHANGED <<g_kind, g_npairs, g_norbs, num_excited, g_out, g_iters>>
    /\ UNCHANGED <<objVars, solveVars, fnVars, wfnVars>>

\* the assertions and the truncating return
APIG_Return ==
    /\ g_kind = "APIG" /\ g_pc = "check"
    /\ IF APIG_asserts(list_sd, g_npairs, g_norbs)
       THEN /\ g_out' = APIG_truncate(list_sd, g_npairs, g_norbs)
            /\ g_pc' = "done"
       ELSE /\ g_out' = g_out
            /\ g_pc' = "failed"
    /\ UNCHANGED <<g_kind, g_npairs, g_norbs, list_sd, num_excited, g_pairs_len,
                   g_singles, g_iters>>
    /\ UNCHANGED <<objVars, solveVars, fnVars, wfnVars>>

\* AP1roG.generate_pspace, whole
AP1roG_Generate ==
    /\ g_kind = "AP1roG" /\ g_pc = "pairs"
    /\ list_sd' = AP1roG_list(g_npairs, g_norbs)
    /\ g_pairs_len' = Len(list_sd')
    /\ g_out' \in AP1roG_orders(g_npairs, g_norbs)
    /\ g_pc' = "done"
    /\ UNCHANGED <<g_kind, g_npairs, g_norbs, num_excited, g_singles, g_iters>>
    /\ UNCHANGED <<objVars, solveVars, fnVars, wfnVars>>
    /\ UNCHANGED <<objVars, solveVars, fnVars, wfnVars>>

\* one iteration of the while loop of prowl's generate_pspace
prowl_Widen ==
    /\ g_kind = "prowl" /\ g_pc = "pairs"
    /\ prowl_loop_cond(list_sd, num_excited, g_npairs, g_norbs)
    /\ list_sd' = list_sd \o prowl_pair_excitations(list_sd, num_excited, g_npairs, g_norbs)
    /\ num_excited' = num_excited + 1
    /\ g_iters' = g_iters + 1
    /\ UNCHANGED <<g_kind, g_npairs, g_norbs, g_pc, g_out, g_pairs_len, g_singles>>
    /\ UNCHANGED <<objVars, solveVars, fnVars, wfnVars>>

\* loop exit, the "if params > len(pspace)" block, the sort and the return
prowl_Return ==
    /\ g_kind = "prowl" /\ g_pc = "pairs"
    /\ ~prowl_loop_cond(list_sd, num_excited, g_npairs, g_norbs)
    /\ g_pairs_len' = Len(list_sd)
    /\ g_singles' = prowl_adds_singles(list_sd, g_npairs, g_norbs)
    /\ list_sd' = prowl_after_singles(list_sd, g_npairs, g_norbs)
    /\ g_out' = prowl_sort(list_sd')
    /\ g_pc' = "done"
    /\ UNCHANGED <<g_kind, g_npairs, g_norbs, num_excited, g_iters>>
    /\ UNCHANGED <<objVars, solveVars, fnVars, wfnVars>>

GenNext ==
    \/ APIG_Widen
    \/ APIG_Singles
    \/ APIG_Return
    \/ AP1roG_Generate
    \/ prowl_Widen
    \/ prowl_Return

SpecPspace == GenInit /\ [][GenNext]_vars


-----------------------------------------------------------------------------
(* The permanent machine: one call of permanent or permanent_derivative on *)
(* a square matrix drawn from a bounded family.                            *)

\* the n-by-n matrix with entries e + a*r + b*c + d*r*c
family_matrix(n, e, a, b, d) ==
    [r \in 0..(n - 1) |-> [c \in 0..(n - 1) |-> e + a * r + b * c + d * r * c]]

PermMatrices(n) ==
    {family_matrix(n, e, a, b, d) :
        e \in 0..MaxEntry, a \in 0..MaxEntry, b \in 0..MaxEntry, d \in 0..MaxEntry}

PermInit ==
    /\ NoWavefunction
    /\ NoGenerator
    /\ NoObject
    /\ fn_pc = "input"
    /\ fn_out = None
    /\ \E n \in 1..MaxPermDim :
       \E matrix \in PermMatrices(n) :
          \/ fn_in = [op |-> "permanent", n |-> n, matrix |-> matrix, i |-> 0, j |-> 0]
          \/ \E i \in 0..(n - 1), j \in 0..(n - 1) :
                fn_in = [op |-> "permanent_derivative", n |-> n, matrix |-> matrix,
                         i |-> i, j |-> j]

\* permanent(matrix) returns
call_permanent ==
    /\ fn_pc = "input"
    /\ fn_in.op = "permanent"
    /\ fn_out' = <<permanent(fn_in.matrix, fn_in.n)>>
    /\ fn_pc' = "done"
    /\ UNCHANGED <<fn_in, genVars, wfnVars, objVars, solveVars>>

\* permanent_derivative(matrix, i, j) returns
call_permanent_derivative ==
    /\ fn_pc = "input"
    /\ fn_in.op = "permanent_derivative"
    /\ fn_out' = <<permanent_derivative(fn_in.matrix, fn_in.n, fn_in.i, fn_in.j)>>
    /\ fn_pc' = "done"
    /\ UNCHANGED <<fn_in, genVars, wfnVars, objVars, solveVars>>

PermNext == call_permanent \/ call_permanent_derivative

SpecPerm == PermInit /\ [][PermNext]_vars

-----------------------------------------------------------------------------
(* The overlap machine: one call of AP1roG.overlap on a wavefunction whose *)
(* projection space is the generated one or every seniority-zero           *)
(* determinant, which the pspace setter accepts.                           *)

\* the pspace setter's assertions on one determinant: nelec electrons, for
\* npairs > 2 the same alpha and beta occupations, and no orbital beyond norbs
pspace_accepts(sd, np, no) ==
    /\ popcount(sd) = 2 * np
    /\ np > 2 => alpha_equals_beta(sd)
    /\ sd < 2 ^ (2 * no)

\* every determinant of npairs doubly occupied orbitals out of norbs
pair_dets(np, no) ==
    LET combs == combinations(Ascending(0..(no - 1)), np)
    IN  [k \in 1..Len(combs) |-> SeqSum([m \in 1..np |-> 3 * 2 ^ (2 * combs[k][m])])]

\* the np-by-(no - np) block with entries a + b*r + c*col, raveled
family_block(np, no, a, b, c) ==
    [k \in 0..(np * (no - np) - 1) |-> a + b * (k \div (no - np)) + c * (k % (no - np))]

OlpBlocks(np, no) ==
    {family_block(np, no, a, b, c) :
        a \in 0..MaxCoeff, b \in 0..MaxCoeff, c \in 0..MaxCoeff}

OlpSystems ==
    {s \in (1..OlpMaxOrbs) \X (1..OlpMaxOrbs) : s[1] < s[2]}

ApigOlpSystems ==
    {s \in (1..ApigOlpMaxOrbs) \X (1..ApigOlpMaxOrbs) : s[1] < s[2]}

\* the beta-to-alpha single excitations of the ground determinant
broken_dets(np, no) ==
    spin_singles(np, APIG_ind_occ(np, no), APIG_ind_vir(np, no))

\* the determinants an overlap is asked for: the paired ones, the sentinel 0,
\* spin-broken ones, and ones with a pair too few or too many
sd_samples(np, no) ==
    Range(pair_dets(np, no)) \cup {0} \cup Range(broken_dets(np, no))
        \cup {ground(np - 1), ground(np + 1)}

\* the projection spaces an AP1roG object can hold: the generated one, every
\* paired determinant, or the paired and the spin-broken ones where the
\* setter accepts them
olp_pspaces(np, no) ==
    {AP1roG_list(np, no), pair_dets(np, no)}
    \cup (IF \A k \in 1..Len(broken_dets(np, no)) :
                pspace_accepts(broken_dets(np, no)[k], np, no)
          THEN {pair_dets(np, no) \o broken_dets(np, no)}
          ELSE {})

\* the npairs-by-norbs matrix with the even entries 2 * (1 + a*r + b*c)
even_matrix(np, no, a, b) ==
    [r \in 0..(np - 1) |-> [c \in 0..(no - 1) |-> 2 * (1 + a * r + b * c)]]

OlpMatrices(np, no) ==
    {even_matrix(np, no, a, b) : a \in 0..MaxCoeff, b \in 0..MaxCoeff}

OlpInit ==
    /\ NoWavefunction
    /\ NoGenerator
    /\ NoObject
    /\ fn_pc = "input"
    /\ fn_out = None
    /\ \E s \in OlpSystems :
       \E ps \in olp_pspaces(s[1], s[2]) :
       \E x \in OlpBlocks(s[1], s[2]) :
       \E phi \in sd_samples(s[1], s[2]) :
          \/ fn_in = [op |-> "AP1roG.overlap", npairs |-> s[1], norbs |-> s[2],
                      pspace |-> ps, x |-> x, phi |-> phi,
                      derivative |-> FALSE, indices |-> <<>>]
          \/ \E i \in 0..(s[1] - 1), j \in s[1]..(s[2] - 1) :
                fn_in = [op |-> "AP1roG.overlap", npairs |-> s[1], norbs |-> s[2],
                         pspace |-> ps, x |-> x, phi |-> phi,
                         derivative |-> TRUE, indices |-> <<i, j>>]

\* the arguments of one overlap call on an APIG object (geminal.py) or on a
\* prowl APIG object with n = 2 * npairs electrons and k = norbs orbitals
ApigOlpInit ==
    /\ NoWavefunction
    /\ NoGenerator
    /\ NoObject
    /\ fn_pc = "input"
    /\ fn_out = None
    /\ \E s \in ApigOlpSystems :
       \E C \in OlpMatrices(s[1], s[2]) :
       \E sd \in sd_samples(s[1], s[2]) :
          \/ \E op \in {"APIG.overlap", "prowl.overlap"} :
                fn_in = [op |-> op, npairs |-> s[1], norbs |-> s[2], C |-> C, sd |-> sd,
                         derivative |-> FALSE, indices |-> <<>>]
          \/ \E op \in {"APIG.overlap", "prowl.overlap_deriv"} :
             \E i \in 0..(s[1] - 1), j \in 0..(s[2] - 1) :
                fn_in = [op |-> op, npairs |-> s[1], norbs |-> s[2], C |-> C, sd |-> sd,
                         derivative |-> TRUE, indices |-> <<i, j>>]

\* the APIG object of the call
apig_self ==
    [cls |-> "APIG", npairs |-> fn_in.npairs, norbs |-> fn_in.norbs,
     ham |-> None, pspace |-> <<>>, overlap |-> ValueMode]

\* prowl: permanent.dense and permanent.dense_deriv
dense(matrix, n) == permanent(matrix, n)
dense_deriv(matrix, n, x, y) == permanent_derivative(matrix, n, x, y)

\* prowl: the three early returns shared by overlap and overlap_deriv
prowl_prefilter(n, k, sd) ==
    \/ popcount(sd) # n
    \/ \E i \in 0..(k - 1) : is_occupied(sd, 2 * i) # is_occupied(sd, 2 * i + 1)

\* prowl: overlap(self, sd), with self.n = n, self.k = k, self.C = C
prowl_overlap(n, k, C, sd) ==
    IF prowl_prefilter(n, k, sd) THEN 0
    ELSE LET occ == occupied_pairs(sd, k)
         IN  dense(columns(C, n \div 2, occ), Len(occ))

\* prowl: overlap_deriv(self, sd, x, y)
prowl_overlap_deriv(n, k, C, sd, x, y) ==
    IF prowl_prefilter(n, k, sd) THEN 0
    ELSE LET occ == occupied_pairs(sd, k)
         IN  IF y \notin Range(occ) THEN 0
             ELSE dense_deriv(columns(C, n \div 2, occ), Len(occ), x, index_of(occ, y))

\* APIG.overlap(slater_det, gem_coeff, derivative, indices) returns
call_APIG_overlap ==
    /\ fn_pc = "input"
    /\ fn_in.op = "APIG.overlap"
    /\ fn_out' = <<APIG_overlap(apig_self, fn_in.sd, fn_in.C, fn_in.derivative,
                                fn_in.indices)>>
    /\ fn_pc' = "done"
    /\ UNCHANGED <<fn_in, genVars, wfnVars, objVars, solveVars>>

\* prowl's overlap(self, sd) returns
call_prowl_overlap ==
    /\ fn_pc = "input"
    /\ fn_in.op = "prowl.overlap"
    /\ fn_out' = <<prowl_overlap(2 * fn_in.npairs, fn_in.norbs, fn_in.C, fn_in.sd)>>
    /\ fn_pc' = "done"
    /\ UNCHANGED <<fn_in, genVars, wfnVars, objVars, solveVars>>

\* prowl's overlap_deriv(self, sd, x, y) returns
call_prowl_overlap_deriv ==
    /\ fn_pc = "input"
    /\ fn_in.op = "prowl.overlap_deriv"
    /\ fn_out' = <<prowl_overlap_deriv(2 * fn_in.npairs, fn_in.norbs, fn_in.C, fn_in.sd,
                                       fn_in.indices[1], fn_in.indices[2])>>
    /\ fn_pc' = "done"
    /\ UNCHANGED <<fn_in, genVars, wfnVars, objVars, solveVars>>

\* the AP1roG object of the call
olp_self ==
    [cls |-> "AP1roG", npairs |-> fn_in.npairs, norbs |-> fn_in.norbs,
     ham |-> None, pspace |-> fn_in.pspace, overlap |-> ValueMode]

\* the matrix the callers hand to overlap: construct_guess(x)
olp_matrix == construct_guess(olp_self, fn_in.x)

\* AP1roG.overlap(phi, matrix, derivative, indices) returns or raises
call_AP1roG_overlap ==
    /\ fn_pc = "input"
    /\ fn_in.op = "AP1roG.overlap"
    /\ fn_out' = IF AP1roG_overlap_flags(olp_self, fn_in.phi)
                 THEN <<"raise", "Exception">>
                 ELSE IF AP1roG_overlap_index_error(olp_self, fn_in.phi)
                 THEN <<"raise", "IndexError">>
                 ELSE <<AP1roG_overlap(olp_self, fn_in.phi, olp_matrix,
                                       fn_in.derivative, fn_in.indices)>>
    /\ fn_pc' = "done"
    /\ UNCHANGED <<fn_in, genVars, wfnVars, objVars, solveVars>>

OlpNext ==
    \/ call_AP1roG_overlap
    \/ call_APIG_overlap
    \/ call_prowl_overlap
    \/ call_prowl_overlap_deriv

SpecOlp == (OlpInit \/ ApigOlpInit) /\ [][OlpNext]_vars

-----------------------------------------------------------------------------
(* The Hamiltonian-integration machine: one call of phi_H_psi,             *)
(* double_phi_H_psi or brute_phi_H_psi on an APIG or AP1roG object.        *)

\* a second set of integrals the ham setter accepts
other_ham(K) ==
    [one |-> [i \in 0..(K - 1) |-> [j \in 0..(K - 1) |-> (i + 1) * (j + 1)]],
     two |-> [i \in 0..(K - 1) |-> [j \in 0..(K - 1) |->
                [k \in 0..(K - 1) |-> [l \in 0..(K - 1) |->
                    1 + i + j + k + l + (i - k) * (i - k) + (j - l) * (j - l)]]]]]

\* the npairs-by-norbs matrix with entries 1 + a*r + b*c
ham_matrix(np, no, a, b) ==
    [r \in 0..(np - 1) |-> [c \in 0..(no - 1) |-> 1 + a * r + b * c]]

\* the coefficient matrices handed to the integration: any npairs-by-norbs
\* matrix for APIG, np.eye plus a block for AP1roG
HamMatrices(c, np, no) ==
    IF c = "APIG"
    THEN {ham_matrix(np, no, a, b) : a \in 0..MaxCoeff, b \in 0..MaxCoeff}
    ELSE {embed([npairs |-> np, norbs |-> no], x) : x \in TrialVectors(np * (no - np))}

HamInit ==
    /\ NoWavefunction
    /\ NoGenerator
    /\ NoObject
    /\ fn_pc = "input"
    /\ fn_out = None
    /\ \E s \in ApigOlpSystems, c \in {"APIG", "AP1roG"} :
       \E C \in HamMatrices(c, s[1], s[2]) :
       \E h \in {test_ham(s[2]), other_ham(s[2])} :
       \E sd \in Range(pair_dets(s[1], s[2])) \cup Range(broken_dets(s[1], s[2])) :
       \E op \in {"phi_H_psi", "double_phi_H_psi", "brute_phi_H_psi"} :
          /\ (op = "double_phi_H_psi" => alpha_equals_beta(sd))
          /\ fn_in = [op |-> op, cls |-> c, npairs |-> s[1], norbs |-> s[2],
                      C |-> C, ham |-> h, sd |-> sd]

\* the object of the call
ham_self ==
    [cls |-> fn_in.cls, npairs |-> fn_in.npairs, norbs |-> fn_in.norbs,
     ham |-> fn_in.ham,
     pspace |-> IF fn_in.cls = "APIG" THEN pair_dets(fn_in.npairs, fn_in.norbs)
                ELSE AP1roG_list(fn_in.npairs, fn_in.norbs),
     overlap |-> ValueMode]

\* phi_H_psi(slater_det, gem_coeff) returns
call_phi_H_psi ==
    /\ fn_pc = "input"
    /\ fn_in.op = "phi_H_psi"
    /\ fn_out' = <<phi_H_psi(ham_self, fn_in.sd, fn_in.C)>>
    /\ fn_pc' = "done"
    /\ UNCHANGED <<fn_in, genVars, wfnVars, objVars, solveVars>>

\* double_phi_H_psi(slater_det, gem_coeff) returns
call_double_phi_H_psi ==
    /\ fn_pc = "input"
    /\ fn_in.op = "double_phi_H_psi"
    /\ fn_out' = <<double_phi_H_psi(ham_self, fn_in.sd, fn_in.C)>>
    /\ fn_pc' = "done"
    /\ UNCHANGED <<fn_in, genVars, wfnVars, objVars, solveVars>>

\* brute_phi_H_psi(slater_det, gem_coeff) returns
call_brute_phi_H_psi ==
    /\ fn_pc = "input"
    /\ fn_in.op = "brute_phi_H_psi"
    /\ fn_out' = <<brute_phi_H_psi(ham_self, fn_in.sd, fn_in.C)>>
    /\ fn_pc' = "done"
    /\ UNCHANGED <<fn_in, genVars, wfnVars, objVars, solveVars>>

HamNext == call_phi_H_psi \/ call_double_phi_H_psi \/ call_brute_phi_H_psi

SpecHam == HamInit /\ [][HamNext]_vars

-----------------------------------------------------------------------------
(* The solve machine: a constructed wavefunction object, its __call__, the *)
(* callbacks the external root-finder makes while it iterates, and its     *)
(* return.  The root-finder is external: which trial vectors it proposes,  *)
(* how many, and whether it reports success are nondeterministic.  The     *)
(* verbose block of __call__ only prints and is left out.                  *)

\* the object, as the record the numeric operators read
Self ==
    [cls |-> cls, npairs |-> w_npairs, norbs |-> w_norbs, ham |-> ham,
     pspace |-> pspace, overlap |-> olp_attr, coeffs |-> coeffs]

\* list.remove(v): the list without the first occurrence of v
list_remove(list, v) ==
    LET k == CHOOSE k \in 1..Len(list) :
                list[k] = v /\ \A m \in 1..(k - 1) : list[m] # v
    IN  SubSeq(list, 1, k - 1) \o SubSeq(list, k + 1, Len(list))

\* proj = list(self.pspace); proj.remove(self.ground)
default_proj(self) == list_remove(self.pspace, ground(self.npairs))

\* self._pspace after the proj list was built: list(..) copied it
pspace_after_proj_mut(self) == default_proj(self)
pspace_after_proj(self) == self.pspace

\* matrix.ravel()
ravel(matrix, rows, cols) ==
    [k \in 0..(rows * cols - 1) |-> matrix[k \div cols][k % cols]]

\* the coeffs setter: APIG reshapes, AP1roG adds the block to np.eye
coeffs_setter(self, value) ==
    IF self.cls = "APIG" THEN reshape(value, self.npairs, self.norbs)
    ELSE embed(self, value)

\* self._coeffs after "if result['success']: self.coeffs = result['x']"
coeffs_after_root_mut(self, success, x) == coeffs_setter(self, x)
coeffs_after_root(self, success, x) ==
    IF success THEN coeffs_setter(self, x) ELSE self.coeffs

\* self._coeffs after nonlin(x0, proj): it works on the local C
coeffs_after_nonlin_mut(self, x0) == coeffs_setter(self, x0)
coeffs_after_nonlin(self, x0) == self.coeffs

\* self._coeffs after nonlin_jac(x0, proj): it works on the local C
coeffs_after_nonlin_jac(self, x0) == self.coeffs

\* the x0 a call may run with: the caller's, or generate_guess() when the
\* inner solve of APIG.generate_guess succeeded
x0_choices(self) ==
    TrialVectors(nparams(self))
    \cup (IF self.cls = "APIG"
          THEN {ravel(embed(self, x), self.npairs, self.norbs) :
                    x \in TrialVectors(self.npairs * (self.norbs - self.npairs))}
          ELSE {})

\* the proj a call may run with: the default, or a caller's shorter list
proj_choices(self) == {default_proj(self), <<default_proj(self)[1]>>}

\* the (class, npairs, norbs) the constructor accepts and the solver can run
SolveObjects ==
    {o \in {"APIG", "AP1roG"} \X (1..MaxParams) \X (1..(MaxParams + 1)) :
        /\ o[2] < o[3]
        /\ nparams([cls |-> o[1], npairs |-> o[2], norbs |-> o[3]]) <= MaxParams
        /\ o[1] = "APIG" => APIG_generates(o[2], o[3])
        /\ o[1] = "AP1roG" => 1 + o[2] * (o[3] - o[2]) <= SolveMaxSet}

\* what every call resets
fresh_solve ==
    /\ vec_last' = None /\ jac_last' = None /\ nfev' = 0 /\ njev' = 0
    /\ result_x' = None
    /\ coeffs_before' = coeffs

GemInit ==
    /\ NoWavefunction
    /\ NoGenerator
    /\ NoCall
    /\ system = "geminal"
    /\ \E o \in SolveObjects :
          /\ cls = o[1] /\ w_npairs = o[2] /\ w_norbs = o[3]
          /\ ham = test_ham(o[3])
          /\ pspace \in (IF o[1] = "APIG" THEN {APIG_generate_pspace(o[2], o[3])}
                         ELSE AP1roG_orders(o[2], o[3]))
    /\ coeffs = None /\ olp_attr = ValueMode /\ pc = "idle" /\ w_proj = <<>>
    /\ jac_given = FALSE /\ x_last = None /\ vec_last = None /\ jac_last = None
    /\ nfev = 0 /\ njev = 0 /\ result = "none" /\ result_x = None
    /\ notice = FALSE /\ coeffs_before = None
    /\ last_op = "init" /\ stored_x = None

\* __call__(x0=None) on an APIG whose generate_guess fails: the inner AP1roG
\* solve did not converge (it printed the warning), gem.coeffs is None and
\* None.ravel() raises
call_guess_fails ==
    /\ system = "geminal" /\ pc = "idle"
    /\ cls = "APIG"
    /\ fresh_solve
    /\ result' = "raised" /\ notice' = TRUE /\ last_op' = "call_raised"
    /\ UNCHANGED <<coeffs, olp_attr, pc, w_proj, jac_given, x_last, stored_x>>
    /\ UNCHANGED <<genVars, wfnVars, objVars, fnVars>>

\* __call__(x0, proj) with len(proj) < x0.size raises ValueError
call_proj_too_short ==
    /\ system = "geminal" /\ pc = "idle"
    /\ \E x0 \in x0_choices(Self), p \in proj_choices(Self) : Len(p) < size(x0)
    /\ fresh_solve
    /\ result' = "raised" /\ notice' = FALSE /\ last_op' = "call_raised"
    /\ UNCHANGED <<coeffs, olp_attr, pc, w_proj, jac_given, x_last, stored_x>>
    /\ UNCHANGED <<genVars, wfnVars, objVars, fnVars>>

\* __call__(x0, jac, proj) up to the point where root(self.nonlin, x0, ...)
\* takes over
call_enters_root ==
    /\ system = "geminal" /\ pc = "idle"
    /\ \E x0 \in x0_choices(Self), p \in proj_choices(Self), jac \in BOOLEAN :
          /\ Len(p) >= size(x0)
          /\ x_last' = x0
          /\ w_proj' = p
          /\ jac_given' = jac
    /\ pspace' = pspace_after_proj(Self)
    /\ fresh_solve
    /\ pc' = "solving"
    /\ result' = "none" /\ notice' = FALSE /\ last_op' = "call"
    /\ UNCHANGED <<coeffs, olp_attr, stored_x>>
    /\ UNCHANGED <<genVars, wfnVars, system, cls, w_npairs, w_norbs, ham, fnVars>>

\* the vectors the root-finder may hand to a callback: x0 first, then any
root_trials ==
    IF nfev = 0 THEN {x_last} ELSE TrialVectors(size(x_last)) \cup {x_last}

\* the root-finder calls self.nonlin(x, proj)
root_calls_nonlin ==
    /\ system = "geminal" /\ pc = "solving" /\ nfev < MaxEvals
    /\ \E x \in root_trials :
          /\ x_last' = x
          /\ vec_last' = nonlin(Self, x, w_proj)
          /\ coeffs' = coeffs_after_nonlin(Self, x)
    /\ nfev' = nfev + 1
    /\ last_op' = "nonlin"
    /\ UNCHANGED <<olp_attr, pc, w_proj, jac_given, jac_last, njev, result, result_x,
                   notice, coeffs_before, stored_x>>
    /\ UNCHANGED <<genVars, wfnVars, objVars, fnVars>>

\* the root-finder calls self.nonlin_jac(x, proj)
root_calls_nonlin_jac ==
    /\ system = "geminal" /\ pc = "solving" /\ jac_given
    /\ nfev >= 1 /\ njev < MaxEvals
    /\ \E x \in root_trials :
          /\ x_last' = x
          /\ jac_last' = nonlin_jac(Self, x, w_proj)
          /\ coeffs' = coeffs_after_nonlin_jac(Self, x)
    /\ olp_attr' = overlap_after_jac(Self)
    /\ njev' = njev + 1
    /\ last_op' = "nonlin_jac"
    /\ UNCHANGED <<pc, w_proj, jac_given, vec_last, nfev, result, result_x,
                   notice, coeffs_before, stored_x>>
    /\ UNCHANGED <<genVars, wfnVars, objVars, fnVars>>

\* root returns; __call__ stores result['x'] or prints the warning, and its
\* locals (x0, proj, jac) and the root-finder's go out of scope
root_returns ==
    /\ system = "geminal" /\ pc = "solving" /\ nfev >= 1
    /\ \E success \in BOOLEAN, x \in root_trials :
          /\ result' = (IF success THEN "success" ELSE "failure")
          /\ result_x' = x
          /\ coeffs' = coeffs_after_root(Self, success, x)
          /\ notice' = ~success
    /\ pc' = "idle"
    /\ last_op' = "return"
    /\ w_proj' = <<>> /\ jac_given' = FALSE
    /\ x_last' = None /\ vec_last' = None /\ jac_last' = None
    /\ UNCHANGED <<olp_attr, nfev, njev, coeffs_before, stored_x>>
    /\ UNCHANGED <<genVars, wfnVars, objVars, fnVars>>

GemNext ==
    \/ call_guess_fails
    \/ call_proj_too_short
    \/ call_enters_root
    \/ root_calls_nonlin
    \/ root_calls_nonlin_jac
    \/ root_returns

-----------------------------------------------------------------------------
(* The other two nonlinear systems: prowl's objective/jacobian, which keep *)
(* the coefficient vector in self.x, and SystemEquations.objective /       *)
(* jacobian, which keep the parameters in the wavefunction.  An external   *)
(* solver starts, hands trial vectors to the callbacks and reports.        *)

\* self.x after "self.x[:] = x"
prowl_x_after(x_old, x) == x

\* the wavefunction's parameters after self.assign_params(params)
wfns_params_after(params_old, params) == params

\* the shapes (npairs, norbs) of the stored vector
SysShapes ==
    {o \in (1..MaxParams) \X (1..MaxParams) :
        o[1] < o[2] /\ prowl_params(o[1], o[2]) <= MaxParams}

SysInit ==
    /\ NoWavefunction
    /\ NoGenerator
    /\ NoCall
    /\ system \in {"prowl", "wfns"}
    /\ cls = "none"
    /\ \E o \in SysShapes :
          /\ w_npairs = o[1] /\ w_norbs = o[2]
          /\ stored_x \in TrialVectors(prowl_params(o[1], o[2]))
    /\ ham = None /\ pspace = <<>>
    /\ coeffs = None /\ olp_attr = ValueMode /\ pc = "idle" /\ w_proj = <<>>
    /\ jac_given = FALSE /\ x_last = None /\ vec_last = None /\ jac_last = None
    /\ nfev = 0 /\ njev = 0 /\ result = "none" /\ result_x = None
    /\ notice = FALSE /\ coeffs_before = None
    /\ last_op = "init"

\* what a callback of these systems leaves alone
sys_frame ==
    /\ UNCHANGED <<coeffs, olp_attr, pc, w_proj, jac_given, vec_last, jac_last,
                   result, result_x, notice, coeffs_before>>
    /\ UNCHANGED <<genVars, wfnVars, objVars, fnVars>>

\* the caller hands the system to the solver
solver_starts ==
    /\ system \in {"prowl", "wfns"} /\ pc = "idle"
    /\ pc' = "solving"
    /\ coeffs_before' = stored_x
    /\ nfev' = 0 /\ njev' = 0
    /\ result' = "none"
    /\ last_op' = "call"
    /\ UNCHANGED <<coeffs, olp_attr, w_proj, jac_given, x_last, vec_last, jac_last,
                   result_x, notice, stored_x>>
    /\ UNCHANGED <<genVars, wfnVars, objVars, fnVars>>

\* the solver calls prowl's objective(self, x)
prowl_objective ==
    /\ system = "prowl" /\ pc = "solving" /\ nfev < MaxEvals
    /\ \E x \in TrialVectors(size(stored_x)) :
          /\ stored_x' = prowl_x_after(stored_x, x)
          /\ x_last' = x
    /\ nfev' = nfev + 1
    /\ last_op' = "objective"
    /\ UNCHANGED njev
    /\ sys_frame

\* the solver calls prowl's jacobian(self, x)
prowl_jacobian ==
    /\ system = "prowl" /\ pc = "solving" /\ njev < MaxEvals
    /\ \E x \in TrialVectors(size(stored_x)) :
          /\ stored_x' = prowl_x_after(stored_x, x)
          /\ x_last' = x
    /\ njev' = njev + 1
    /\ last_op' = "jacobian"
    /\ UNCHANGED nfev
    /\ sys_frame

\* the solver calls SystemEquations.objective(params)
wfns_objective ==
    /\ system = "wfns" /\ pc = "solving" /\ nfev < MaxEvals
    /\ \E params \in TrialVectors(size(stored_x)) :
          /\ stored_x' = wfns_params_after(stored_x, params)
          /\ x_last' = params
    /\ nfev' = nfev + 1
    /\ last_op' = "objective"
    /\ UNCHANGED njev
    /\ sys_frame

\* the solver calls SystemEquations.jacobian(params)
wfns_jacobian ==
    /\ system = "wfns" /\ pc = "solving" /\ njev < MaxEvals
    /\ \E params \in TrialVectors(size(stored_x)) :
          /\ stored_x' = wfns_params_after(stored_x, params)
          /\ x_last' = params
    /\ njev' = njev + 1
    /\ last_op' = "jacobian"
    /\ UNCHANGED nfev
    /\ sys_frame

\* the solver reports convergence or non-convergence; it holds no reference
\* to the stored vector
solver_reports ==
    /\ system \in {"prowl", "wfns"} /\ pc = "solving" /\ nfev >= 1
    /\ \E success \in BOOLEAN : result' = (IF success THEN "success" ELSE "failure")
    /\ pc' = "idle"
    /\ last_op' = "return"
    /\ x_last' = None
    /\ UNCHANGED <<coeffs, olp_attr, w_proj, jac_given, vec_last, jac_last, nfev, njev,
                   result_x, notice, coeffs_before, stored_x>>
    /\ UNCHANGED <<genVars, wfnVars, objVars, fnVars>>

SysNext ==
    \/ solver_starts
    \/ prowl_objective
    \/ prowl_jacobian
    \/ wfns_objective
    \/ wfns_jacobian
    \/ solver_reports

Init == GemInit \/ SysInit

Next == GemNext \/ SysNext

Spec == Init /\ [][Next]_vars

-----------------------------------------------------------------------------
(* The integral-assignment machine: one assignment of (H, G) through the   *)
(* ham setter of geminal.py, Wavefunction.assign_integrals or              *)
(* BaseUnrestrictedHamiltonian.assign_integrals. The arguments are float   *)
(* ndarrays with equal dimensions along every axis.                        *)

\* value[0].shape[0]
dim(A) == Cardinality(DOMAIN A)

\* np.allclose(H, H.T)
is_symmetric(H) == \A i, j \in DOMAIN H : H[i][j] = H[j][i]

\* np.allclose(G, np.einsum('jilk', G))
is_jilk_symmetric(G) == \A i, j, k, l \in DOMAIN G : G[i][j][k][l] = G[j][i][l][k]

\* np.allclose(G, np.conjugate(np.einsum('klij', G))), real entries
is_klij_symmetric(G) == \A i, j, k, l \in DOMAIN G : G[i][j][k][l] = G[k][l][i][j]

\* the one-electron arrays handed in: symmetric for a = 1
int_one(K, a) == [i \in 0..(K - 1) |-> [j \in 0..(K - 1) |-> 1 + i + a * j]]

\* the two-electron arrays handed in: b breaks <ij|kl> = <ji|lk>, c breaks
\* <ij|kl> = <kl|ij>
int_two(K, b, c) ==
    [i \in 0..(K - 1) |-> [j \in 0..(K - 1) |-> [k \in 0..(K - 1) |-> [l \in 0..(K - 1) |->
        test_ham(K).two[i][j][k][l] + b * (i + k) + c * (i + j)]]]]

IntOnes == {int_one(K, a) : K \in 1..MaxIntOrbs, a \in 0..1}
IntTwos == {int_two(K, b, c) : K \in 1..MaxIntOrbs, b \in 0..1, c \in 0..1}

IntInit ==
    /\ NoWavefunction
    /\ NoGenerator
    /\ system = "integrals"
    /\ cls \in {"APIG", "Wavefunction", "BaseUnrestrictedHamiltonian"}
    /\ w_npairs = 0 /\ w_norbs \in 1..MaxIntOrbs
    /\ ham = None /\ pspace = <<>>
    /\ coeffs = None /\ olp_attr = ValueMode /\ pc = "off" /\ w_proj = <<>>
    /\ jac_given = FALSE /\ x_last = None /\ vec_last = None /\ jac_last = None
    /\ nfev = 0 /\ njev = 0 /\ result = "none" /\ result_x = None
    /\ notice = FALSE /\ coeffs_before = None
    /\ last_op = "init" /\ stored_x = None
    /\ fn_pc = "input"
    /\ fn_out = None
    /\ \E Ha \in IntOnes, Hb \in IntOnes, Ga \in IntTwos :
          /\ (cls = "APIG" => Hb = Ha)
          /\ fn_in = [Ha |-> Ha, Hb |-> Hb, Ga |-> Ga]

\* what an assignment leaves alone
int_frame ==
    UNCHANGED <<fn_in, genVars, wfnVars, system, cls, w_npairs, w_norbs, pspace, solveVars>>

\* geminal.py: self.ham = (H, G)
ham_setter ==
    /\ system = "integrals" /\ cls = "APIG" /\ fn_pc = "input"
    /\ IF /\ dim(fn_in.Ha) = w_norbs /\ dim(fn_in.Ga) = w_norbs
          /\ is_symmetric(fn_in.Ha)
          /\ is_jilk_symmetric(fn_in.Ga)
          /\ is_klij_symmetric(fn_in.Ga)
       THEN ham' = [one |-> fn_in.Ha, two |-> fn_in.Ga] /\ fn_out' = <<"stored">>
       ELSE ham' = ham /\ fn_out' = <<"raise", "AssertionError">>
    /\ fn_pc' = "done"
    /\ int_frame

\* Wavefunction.assign_integrals((Ha, Hb), (Ga, Ga)); the restricted form
\* assign_integrals(H, G) is the case Hb = Ha
Wavefunction_assign_integrals ==
    /\ system = "integrals" /\ cls = "Wavefunction" /\ fn_pc = "input"
    /\ IF dim(fn_in.Ha) = dim(fn_in.Ga) /\ dim(fn_in.Hb) = dim(fn_in.Ga)
       THEN /\ ham' = [H |-> fn_in.Ha, Ha |-> fn_in.Ha, Hb |-> fn_in.Hb,
                       G |-> fn_in.Ga, Ga |-> fn_in.Ga, Gb |-> fn_in.Ga]
            /\ fn_out' = <<"stored">>
       ELSE ham' = ham /\ fn_out' = <<"raise", "ValueError">>
    /\ fn_pc' = "done"
    /\ int_frame

\* BaseUnrestrictedHamiltonian.assign_integrals((Ha, Hb), (Ga, Ga, Ga))
BaseUnrestrictedHamiltonian_assign_integrals ==
    /\ system = "integrals" /\ cls = "BaseUnrestrictedHamiltonian" /\ fn_pc = "input"
    /\ IF dim(fn_in.Ha) = dim(fn_in.Hb) /\ dim(fn_in.Ha) = dim(fn_in.Ga)
       THEN /\ ham' = [one_int |-> <<fn_in.Ha, fn_in.Hb>>,
                       two_int |-> <<fn_in.Ga, fn_in.Ga, fn_in.Ga>>]
            /\ fn_out' = <<"stored">>
       ELSE ham' = ham /\ fn_out' = <<"raise", "ValueError">>
    /\ fn_pc' = "done"
    /\ int_frame

IntNext ==
    \/ ham_setter
    \/ Wavefunction_assign_integrals
    \/ BaseUnrestrictedHamiltonian_assign_integrals

SpecInt == IntInit /\ [][IntNext]_vars

-----------------------------------------------------------------------------
(* math_tools: the permanents of a rectangular matrix, one call each.      *)

\* matrix.transpose() of an nrow-by-ncol matrix
transpose(matrix, nrow, ncol) ==
    [c \in 0..(ncol - 1) |-> [r \in 0..(nrow - 1) |-> matrix[r][c]]]

\* the sum, over the permutations(cols, nrow) that continue from row r with
\* the columns cols still free, of the products of matrix[rows, perm]
RECURSIVE arrangement_sum(_, _, _, _)
arrangement_sum(matrix, r, nrow, cols) ==
    IF r = nrow THEN 1
    ELSE LET cs == Ascending(cols)
         IN  SeqSum([k \in 1..Len(cs) |->
                matrix[r][cs[k]] * arrangement_sum(matrix, r + 1, nrow, cols \ {cs[k]})])

\* permanent_combinatoric(matrix), nrow and ncol at least 1
permanent_combinatoric(matrix, nrow, ncol) ==
    IF nrow > ncol
    THEN arrangement_sum(transpose(matrix, nrow, ncol), 0, ncol, 0..(nrow - 1))
    ELSE arrangement_sum(matrix, 0, nrow, 0..(ncol - 1))

\* np.pad(matrix, ((0, ncol - nrow), (0, 0)), constant_values=((0, 1.0), (0, 0)))
pad_mut(matrix, nrow, ncol) ==
    [r \in 0..(ncol - 1) |-> [c \in 0..(ncol - 1) |->
        IF r < nrow THEN matrix[r][c] ELSE 0]]

pad(matrix, nrow, ncol) ==
    [r \in 0..(ncol - 1) |-> [c \in 0..(ncol - 1) |->
        IF r < nrow THEN matrix[r][c] ELSE 1]]

\* sign = bool(ncol % 2)
first_sign_mut(ncol) == ncol % 2 = 0
first_sign(ncol) == ncol % 2 = 1

\* np.prod(rowsums)
RECURSIVE prod_below(_, _)
prod_below(rowsums, k) == IF k = 0 THEN 1 ELSE rowsums[k - 1] * prod_below(rowsums, k - 1)

\* the while loop of permanent_ryser, from one test of "not all(graycode)"
\* to the end: the value of the local permanent (total) when the loop exits
RECURSIVE ryser_loop(_, _, _, _, _, _)
ryser_loop(matrix, ncol, graycode, rowsums, sign, total) ==
    IF \A i \in 0..(ncol - 1) : graycode[i] THEN total
    ELSE LET cur_position == SetMin({i \in 0..(ncol - 1) : ~graycode[i]})
             code == [i \in 0..(ncol - 1) |->
                        IF i < cur_position THEN FALSE
                        ELSE IF i = cur_position THEN TRUE ELSE graycode[i]]
             cur_value == IF cur_position = ncol - 1 THEN code[ncol - 1]
                          ELSE ~(code[cur_position] /\ code[cur_position + 1])
             sums == [r \in 0..(ncol - 1) |->
                        IF cur_value THEN rowsums[r] + matrix[r][cur_position]
                        ELSE rowsums[r] - matrix[r][cur_position]]
         IN  ryser_loop(matrix, ncol, code, sums, ~sign,
                        IF sign THEN total + prod_below(sums, ncol)
                        ELSE total - prod_below(sums, ncol))

\* permanent_ryser(matrix), nrow and ncol at least 1: permanent * factor as
\* the fraction num / den, factor = 1 / (ncol - nrow)!
permanent_ryser(matrix, nrow, ncol) ==
    LET n == Max2(nrow, ncol)
        m == Min2(nrow, ncol)
        wide == IF nrow > ncol THEN transpose(matrix, nrow, ncol) ELSE matrix
        square == IF nrow # ncol THEN pad(wide, m, n) ELSE matrix
    IN  [num |-> ryser_loop(square, n, [i \in 0..(n - 1) |-> FALSE],
                            [r \in 0..(n - 1) |-> 0], first_sign(n), 0),
         den |-> IF nrow # ncol THEN factorial(n - m) ELSE 1]

\* the nrow-by-ncol matrix with entries e + a*r - b*c + d*r*c
math_matrix(nrow, ncol, e, a, b, d) ==
    [r \in 0..(nrow - 1) |-> [c \in 0..(ncol - 1) |-> e + a * r - b * c + d * r * c]]

MathInit ==
    /\ NoWavefunction
    /\ NoGenerator
    /\ NoObject
    /\ fn_pc = "input"
    /\ fn_out = None
    /\ \E nrow \in 0..MaxPermDim, ncol \in 0..MaxPermDim :
       \E e \in 0..MaxEntry, a \in 0..MaxEntry, b \in 0..MaxEntry, d \in 0..MaxEntry :
       \E op \in {"permanent_combinatoric", "permanent_ryser"} :
          fn_in = [op |-> op, nrow |-> nrow, ncol |-> ncol,
                   matrix |-> math_matrix(nrow, ncol, e, a, b, d)]

\* permanent_combinatoric(matrix) returns or raises ValueError
call_permanent_combinatoric ==
    /\ fn_pc = "input"
    /\ fn_in.op = "permanent_combinatoric"
    /\ fn_out' = IF fn_in.nrow = 0 \/ fn_in.ncol = 0 THEN <<"raise", "ValueError">>
                 ELSE <<permanent_combinatoric(fn_in.matrix, fn_in.nrow, fn_in.ncol)>>
    /\ fn_pc' = "done"
    /\ UNCHANGED <<fn_in, genVars, wfnVars, objVars, solveVars>>

\* permanent_ryser(matrix) returns or raises ValueError
call_permanent_ryser ==
    /\ fn_pc = "input"
    /\ fn_in.op = "permanent_ryser"
    /\ fn_out' = IF fn_in.nrow = 0 \/ fn_in.ncol = 0 THEN <<"raise", "ValueError">>
                 ELSE <<permanent_ryser(fn_in.matrix, fn_in.nrow, fn_in.ncol)>>
    /\ fn_pc' = "done"
    /\ UNCHANGED <<fn_in, genVars, wfnVars, objVars, solveVars>>

MathNext == call_permanent_combinatoric \/ call_permanent_ryser

SpecMath == MathInit /\ [][MathNext]_vars

-----------------------------------------------------------------------------
(* math_tools: adjugate and permanent_borchardt, one call each, on integer *)
(* arguments (a determinant is then 0 or at least 1 in absolute value).    *)

\* the matrix without row i and column j
drop_row_col(matrix, n, i, j) ==
    [r \in 0..(n - 2) |-> [c \in 0..(n - 2) |->
        matrix[IF r < i THEN r ELSE r + 1][IF c < j THEN c ELSE c + 1]]]

\* np.linalg.det(matrix) of an n-by-n matrix
RECURSIVE det(_, _)
det(matrix, n) ==
    IF n = 0 THEN 1
    ELSE SeqSum([k \in 1..n |->
            (IF k % 2 = 1 THEN 1 ELSE -1) * matrix[0][k - 1]
                * det(drop_row_col(matrix, n, 0, k - 1), n - 1)])

\* det * np.linalg.inv(matrix): the transposed cofactor matrix
adjugate(matrix, n) ==
    [i \in 0..(n - 1) |-> [j \in 0..(n - 1) |->
        (IF (i + j) % 2 = 0 THEN 1 ELSE -1) * det(drop_row_col(matrix, n, j, i), n - 1)]]

\* np.linalg.det(submatrix**2) / np.linalg.det(submatrix) * perm_zetas for
\* the columns indices of the matrix with entries 1 / d[i][j], as a fraction
\* num / den; den = 0 exactly when det(submatrix) = 0
borchardt_term(d, zetas, indices) ==
    LET n == Len(indices)
        others(i, k) == prod_below([c \in 0..(n - 1) |->
                            IF c = k THEN 1 ELSE d[i + 1][indices[c + 1]]], n)
        scaled == [i \in 0..(n - 1) |-> [k \in 0..(n - 1) |-> others(i, k)]]
        scaled2 == [i \in 0..(n - 1) |-> [k \in 0..(n - 1) |-> others(i, k) * others(i, k)]]
        all_d == prod_below([i \in 0..(n - 1) |->
                            prod_below([c \in 0..(n - 1) |-> d[i + 1][indices[c + 1]]], n)], n)
        perm_zetas == prod_below([c \in 0..(n - 1) |-> zetas[indices[c + 1]]], n)
    IN  [num |-> det(scaled2, n) * perm_zetas, den |-> det(scaled, n) * all_d]

\* perm_cauchy: the sum of the terms
RECURSIVE frac_sum(_)
frac_sum(terms) ==
    IF terms = <<>> THEN [num |-> 0, den |-> 1]
    ELSE LET rest == frac_sum(Tail(terms))
         IN  [num |-> Head(terms).num * rest.den + rest.num * Head(terms).den,
              den |-> Head(terms).den * rest.den]

\* permanent_borchardt(lambdas, epsilons, zetas) with etas = None: "nan" when
\* a submatrix has determinant 0 (0.0 / 0.0), otherwise the fraction
permanent_borchardt(lambdas, epsilons, zetas) ==
    LET swapped == Len(lambdas) > Len(epsilons)
        num_row == Min2(Len(lambdas), Len(epsilons))
        num_col == Max2(Len(lambdas), Len(epsilons))
        d == [i \in 1..num_row |-> [j \in 1..num_col |->
                IF swapped THEN lambdas[j] - epsilons[i] ELSE lambdas[i] - epsilons[j]]]
        zs == IF swapped THEN [j \in 1..num_col |-> 1] ELSE zetas
        perm_etas == IF swapped THEN prod_below([c \in 0..(num_row - 1) |-> zetas[c + 1]], num_row)
                     ELSE 1
        combs == combinations(Ascending(1..num_col), num_row)
        terms == [k \in 1..Len(combs) |-> borchardt_term(d, zs, combs[k])]
    IN  IF \E k \in 1..Len(combs) : terms[k].den = 0 THEN "nan"
        ELSE [num |-> frac_sum(terms).num * perm_etas, den |-> frac_sum(terms).den]

\* the vectors of 1..MaxCauchyDim parameters each 1..MaxCauchyDim
CauchyVectors ==
    UNION {[1..n -> 1..MaxCauchyDim] : n \in 1..MaxCauchyDim}

SingInit ==
    /\ NoWavefunction
    /\ NoGenerator
    /\ NoObject
    /\ fn_pc = "input"
    /\ fn_out = None
    /\ \/ \E n \in 1..MaxPermDim :
          \E e \in 0..MaxEntry, a \in 0..MaxEntry, b \in 0..MaxEntry, g \in 0..MaxEntry :
             \* entries e + a*r - b*c + r*c, plus g on the diagonal
             fn_in = [op |-> "adjugate", n |-> n,
                      matrix |-> [r \in 0..(n - 1) |-> [c \in 0..(n - 1) |->
                                    math_matrix(n, n, e, a, b, 1)[r][c]
                                        + (IF r = c THEN g ELSE 0)]]]
       \/ \E l \in CauchyVectors, v \in CauchyVectors, z \in 0..1 :
             \* equal lambdas only where they are rows of the Cauchy matrix
             /\ (Len(l) > Len(v) => \A i, j \in 1..Len(l) : i # j => l[i] # l[j])
             /\ \A i, j \in 1..Len(v) : i # j => v[i] # v[j]
             /\ fn_in = [op |-> "permanent_borchardt", lambdas |-> l,
                         epsilons |-> [j \in 1..Len(v) |-> 0 - v[j]],
                         zetas |-> [j \in 1..Len(v) |-> 1 + z * j]]

\* adjugate(matrix) returns or raises LinAlgError: abs(det) <= 1e-12
call_adjugate ==
    /\ fn_pc = "input"
    /\ fn_in.op = "adjugate"
    /\ fn_out' = IF det(fn_in.matrix, fn_in.n) = 0 THEN <<"raise", "LinAlgError">>
                 ELSE <<adjugate(fn_in.matrix, fn_in.n)>>
    /\ fn_pc' = "done"
    /\ UNCHANGED <<fn_in, genVars, wfnVars, objVars, solveVars>>

\* permanent_borchardt(lambdas, epsilons, zetas) returns
call_permanent_borchardt ==
    /\ fn_pc = "input"
    /\ fn_in.op = "permanent_borchardt"
    /\ fn_out' = <<permanent_borchardt(fn_in.lambdas, fn_in.epsilons, fn_in.zetas)>>
    /\ fn_pc' = "done"
    /\ UNCHANGED <<fn_in, genVars, wfnVars, objVars, solveVars>>

SingNext == call_adjugate \/ call_permanent_borchardt

SpecSing == SingInit /\ [][SingNext]_vars

-----------------------------------------------------------------------------
(* The residual machine: one call of nonlin(x0, proj) or nonlin_jac(x0,    *)
(* proj) on a constructed APIG or AP1roG object, with its default proj.    *)

\* the raveled coefficients handed to the call, with entries 0, 2 and 4
JacVectors(n) ==
    {[k \in 0..(n - 1) |-> 2 * (((a + 1) * k + b) % 3)] : a \in 0..1, b \in 0..1}

\* the (class, npairs, norbs) whose constructor generates a projection space
JacObjects ==
    {o \in {"APIG", "AP1roG"} \X (1..MaxPairs) \X (1..MaxOrbs) :
        /\ o[2] < o[3]
        /\ o[1] = "APIG" => APIG_generates(o[2], o[3])}

JacInit ==
    /\ NoWavefunction
    /\ NoGenerator
    /\ NoObject
    /\ fn_pc = "input"
    /\ fn_out = None
    /\ \E o \in JacObjects, op \in {"nonlin", "nonlin_jac"} :
       \E x0 \in JacVectors(nparams([cls |-> o[1], npairs |-> o[2], norbs |-> o[3]])) :
          fn_in = [op |-> op, cls |-> o[1], npairs |-> o[2], norbs |-> o[3], x0 |-> x0,
                   pspace |-> IF o[1] = "APIG" THEN APIG_generate_pspace(o[2], o[3])
                              ELSE AP1roG_list(o[2], o[3])]

\* the object of the call
jac_self ==
    [cls |-> fn_in.cls, npairs |-> fn_in.npairs, norbs |-> fn_in.norbs,
     ham |-> test_ham(fn_in.norbs), pspace |-> fn_in.pspace, overlap |-> ValueMode]

\* nonlin(x0, proj) returns the residual
call_nonlin ==
    /\ fn_pc = "input"
    /\ fn_in.op = "nonlin"
    /\ fn_out' = <<nonlin(jac_self, fn_in.x0, default_proj(jac_self))>>
    /\ fn_pc' = "done"
    /\ UNCHANGED <<fn_in, genVars, wfnVars, objVars, solveVars>>

\* nonlin_jac(x0, proj) returns the Jacobian
call_nonlin_jac ==
    /\ fn_pc = "input"
    /\ fn_in.op = "nonlin_jac"
    /\ fn_out' = <<nonlin_jac(jac_self, fn_in.x0, default_proj(jac_self))>>
    /\ fn_pc' = "done"
    /\ UNCHANGED <<fn_in, genVars, wfnVars, objVars, solveVars>>

JacNext == call_nonlin \/ call_nonlin_jac

SpecJac == JacInit /\ [][JacNext]_vars

-----------------------------------------------------------------------------
(* Properties of the projection-space generators (SpecPspace) *)

GenReturned == g_pc = "done"
GenEnded == g_pc \in {"done", "failed"}

\* the size the generator aims at
gen_required ==
    IF g_kind = "prowl" THEN prowl_params(g_npairs, g_norbs)
    ELSE num_needed(g_npairs, g_norbs)

\* the determinant with exactly the lowest 2*npairs bits set
IsLowestBits(sd, npairs) ==
    /\ sd < 2 ^ (2 * npairs)
    /\ \A b \in 0..(2 * npairs - 1) : is_occupied(sd, b)

\* C4: whenever APIG.generate_pspace returns, the result has exactly
\* npairs*norbs+1 determinants, no two of them equal, and its first entry is
\* the ground determinant (the lowest 2*npairs bits set).
C4_ApigPspaceShape ==
    (g_kind = "APIG" /\ GenReturned) =>
        /\ Len(g_out) = g_npairs * g_norbs + 1
        /\ NoDuplicates(g_out)
        /\ IsLowestBits(g_out[1], g_npairs)

\* an APIG run that returned after truncating a longer list
C4_Witness ==
    /\ g_kind = "APIG" /\ GenReturned
    /\ g_npairs = 2 /\ g_iters = 2
    /\ Len(list_sd) > Len(g_out)
    /\ Len(g_out) = 13

\* C5 (as claimed): every generator's result is duplicate-free and starts
\* with the ground determinant; the AP1roG result has 1 + npairs*(norbs-npairs)
\* entries.
C5_AllGeneratorsGroundFirst ==
    GenReturned =>
        /\ NoDuplicates(g_out)
        /\ Len(g_out) >= 1 /\ g_out[1] = ground(g_npairs)
        /\ g_kind = "AP1roG" => Len(g_out) = 1 + g_npairs * (g_norbs - g_npairs)

C8_SinglesOnlyIfShort ==
    g_singles => (g_pairs_len < gen_required /\ g_npairs <= 2)

\* C8 (amended): the singles come after the pair stage; APIG appends them
\* exactly when npairs <= 2, prowl exactly when the list is shorter than
\* params; when the pair excitations supply the required count, the returned
\* space holds no spin-breaking determinant.
C8_SinglesAfterPairs ==
    g_kind \in {"APIG", "prowl"} =>
        /\ g_pc = "pairs" => (~g_singles /\ \A k \in 1..Len(list_sd) :
                                    ~IsSpinBroken(list_sd[k], g_norbs))
        /\ GenEnded =>
            /\ \A k \in 1..Len(list_sd) :
                   IsSpinBroken(list_sd[k], g_norbs) => (g_singles /\ k > g_pairs_len)
            /\ g_kind = "APIG" => (g_singles <=> g_npairs <= 2)
            /\ g_kind = "prowl" => (g_singles <=> g_pairs_len < gen_required)
        /\ (GenReturned /\ g_pairs_len >= gen_required) =>
               \A k \in 1..Len(g_out) : ~IsSpinBroken(g_out[k], g_norbs)

\* an APIG run whose pair excitations sufficed and that appended the singles
\* all the same, then returned
C8_Witness ==
    /\ g_kind = "APIG" /\ GenReturned
    /\ g_singles
    /\ g_pairs_len >= gen_required

-----------------------------------------------------------------------------
(* Properties of permanent_derivative (SpecPerm) *)

\* the matrix without row i and column j
minor(matrix, n, i, j) ==
    [r \in 0..(n - 2) |-> [c \in 0..(n - 2) |->
        matrix[IF r < i THEN r ELSE r + 1][IF c < j THEN c ELSE c + 1]]]

\* a permanent_derivative call has returned
PermDerivativeReturned == fn_pc = "done" /\ fn_in.op = "permanent_derivative"

\* C9: permanent_derivative(A, i, j) is the derivative of the permanent with
\* respect to A[i, j]: the permanent of the (n-1)-by-(n-1) minor that drops
\* row i and column j.
C9_DerivativeIsMinorPermanent ==
    PermDerivativeReturned =>
        fn_out[1] = permanent(minor(fn_in.matrix, fn_in.n, fn_in.i, fn_in.j), fn_in.n - 1)

-----------------------------------------------------------------------------
(* Properties of AP1roG.overlap (SpecOlp) *)

\* a value-mode AP1roG.overlap call on a determinant of the projection space
\* has returned
OlpValueReturned ==
    /\ fn_pc = "done"
    /\ fn_in.op = "AP1roG.overlap"
    /\ ~fn_in.derivative
    /\ fn_in.phi \in Range(fn_in.pspace)
    /\ excite_count(olp_self, fn_in.phi) <= 2
    /\ Len(fn_out) = 1

\* the permanent of the columns of I + X that phi occupies
occupied_permanent ==
    permanent(columns(olp_matrix, fn_in.npairs, occupied_pairs(fn_in.phi, fn_in.norbs)),
              fn_in.npairs)

\* C10: for a determinant that differs from the reference by zero, one or two
\* pair excitations, the closed form AP1roG.overlap returns equals the
\* permanent of the occupied columns of I + X.
C10_ClosedFormIsPermanent ==
    OlpValueReturned => fn_out[1] = occupied_permanent

-----------------------------------------------------------------------------
(* Properties of the solve call and the nonlinear system (Spec) *)

\* __call__ reached the root-finder and the root-finder has returned
RootReturned == system = "geminal" /\ pc = "idle" /\ result \in {"success", "failure"}

\* C1: for every __call__ that reaches the root-finder: on a reported failure
\* the stored coefficients are those from before the call and the
\* non-convergence warning was printed; the stored coefficients differ from
\* those before the call only after a reported success, and then they are the
\* solver's x as the coeffs setter stores it.
C1_CoeffsReplacedOnlyOnSuccess ==
    system = "geminal" =>
        /\ (RootReturned /\ result = "failure") => (coeffs = coeffs_before /\ notice)
        /\ (RootReturned /\ result = "success") =>
                (coeffs = coeffs_setter(Self, result_x) /\ ~notice)
        /\ coeffs # coeffs_before => (RootReturned /\ result = "success")

\* a second call failed after a first one had stored coefficients
C1_Witness ==
    /\ RootReturned /\ result = "failure"
    /\ njev >= 1
    /\ coeffs # None /\ coeffs = coeffs_before
    /\ coeffs # coeffs_setter(Self, result_x)

\* what each system keeps as its stored coefficients/parameters
stored == IF system = "geminal" THEN coeffs ELSE stored_x

\* a solve is under way, or has ended with a reported non-convergence
TrialsThenFailure == pc = "solving" \/ (pc = "idle" /\ result = "failure")

ValueSelf == [Self EXCEPT !.overlap = ValueMode]

\* C3: whenever nonlin_jac has returned, the overlap callable is the value-mode
\* evaluator again, so a residual evaluated after a Jacobian evaluation is the
\* value-mode residual of its x, as one evaluated before it.
C3_JacobianRestoresOverlap ==
    system = "geminal" =>
        /\ olp_attr = ValueMode
        /\ last_op = "nonlin" => vec_last = nonlin(ValueSelf, x_last, w_proj)

\* a residual evaluation followed a Jacobian evaluation
C3_Witness ==
    /\ system = "geminal" /\ last_op = "nonlin" /\ njev >= 1 /\ nfev >= 2
    /\ \E e \in DOMAIN vec_last : vec_last[e] # 0
    /\ \E e \in DOMAIN jac_last : \E c \in DOMAIN jac_last[e] : jac_last[e][c] # 0

\* C6: no solve, residual or Jacobian call (with the overlap and Hamiltonian
\* integrations they make) changes the contents or the order of the
\* projection space built at construction; the solve works on a copy without
\* the ground determinant.
C6_PspaceImmutable == [][pspace' = pspace]_vars

\* a solve with residual and Jacobian evaluations has returned and the
\* projection space still holds the ground determinant
C6_Witness ==
    /\ RootReturned /\ nfev >= 1 /\ njev >= 1
    /\ Len(pspace) >= 3
    /\ ground(w_npairs) \in Range(pspace)

-----------------------------------------------------------------------------
(* Properties of the overlap engines (SpecOlp) *)

\* the determinant an overlap call was asked for
olp_sd == IF fn_in.op = "AP1roG.overlap" THEN fn_in.phi ELSE fn_in.sd

\* the call returned the number v
Returns(v) == fn_pc = "done" /\ Len(fn_out) = 1 /\ fn_out[1] = v

\* sd passes the pre-filter: nelec electrons, alpha and beta occupations equal
PassesPrefilter ==
    /\ popcount(olp_sd) = 2 * fn_in.npairs
    /\ \A i \in 0..(fn_in.norbs - 1) :
            is_occupied(olp_sd, 2 * i) = is_occupied(olp_sd, 2 * i + 1)

\* the sorted occupied spatial orbitals of sd, and C[:, occ]
olp_occ == occupied_pairs(olp_sd, fn_in.norbs)
olp_minor_of_C == columns(fn_in.C, fn_in.npairs, olp_occ)

\* a derivative call with respect to a coefficient of an occupied column
DerivOfOccupied ==
    /\ fn_pc = "done" /\ fn_in.derivative /\ PassesPrefilter
    /\ fn_in.indices[2] \in Range(olp_occ)

\* permanent_derivative(C[:, occ], i, occ.index(j))
olp_permanent_derivative ==
    permanent_derivative(olp_minor_of_C, Len(olp_occ), fn_in.indices[1],
                         index_of(olp_occ, fn_in.indices[2]))

\* C11 as stated: in geminal.py's APIG.overlap and in prowl's overlap_deriv,
\* the derivative with respect to C[i, j], j in occ, of the overlap with a
\* determinant passing the pre-filter is
\* permanent_derivative(C[:, occ], i, occ.index(j)) / 2.
C11_DerivativeIsHalved ==
    (DerivOfOccupied /\ fn_in.op \in {"APIG.overlap", "prowl.overlap_deriv"}) =>
        2 * fn_out[1] = olp_permanent_derivative

\* C11 as amended: for a determinant passing the pre-filter, APIG.overlap and
\* prowl's overlap return permanent(C[:, occ]); the derivative with respect to
\* C[i, j] is 0 if j is not in occ; otherwise geminal.py's APIG.overlap returns
\* permanent_derivative(C[:, occ], i, occ.index(j)) / 2 and prowl's
\* overlap_deriv returns the undivided dense_deriv(C[:, occ], i, occ.index(j)).
C11_ApigOverlapIsPermanent ==
    (fn_pc = "done" /\ fn_in.op \in {"APIG.overlap", "prowl.overlap", "prowl.overlap_deriv"}
        /\ PassesPrefilter) =>
        /\ ~fn_in.derivative => fn_out[1] = permanent(olp_minor_of_C, fn_in.npairs)
        /\ (fn_in.derivative /\ fn_in.indices[2] \notin Range(olp_occ)) => fn_out[1] = 0
        /\ (DerivOfOccupied /\ fn_in.op = "APIG.overlap") =>
                2 * fn_out[1] = olp_permanent_derivative
        /\ (DerivOfOccupied /\ fn_in.op = "prowl.overlap_deriv") =>
                fn_out[1] = olp_permanent_derivative

\* APIG.overlap returned a nonzero derivative of a three-pair permanent
C11_Witness ==
    /\ DerivOfOccupied /\ fn_in.op = "APIG.overlap"
    /\ fn_in.npairs = 3
    /\ fn_out[1] # 0
    /\ fn_in.indices = <<2, 3>>

\* C12: APIG.overlap, AP1roG.overlap and prowl's overlap / overlap_deriv
\* return 0, in value and in derivative mode and without raising, for every
\* sd that is the sentinel 0, has an electron count other than nelec, or has
\* different alpha and beta occupations in some spatial orbital.
C12_PrefilterReturnsZero ==
    (fn_pc = "done" /\ ~PassesPrefilter) => Returns(0)

\* C13 as stated: AP1roG.overlap evaluates a closed form only for
\* excite_count 0, 1 or 2, and raises for every determinant with a higher
\* count instead of returning a value.
C13_HigherCountRaises ==
    (fn_pc = "done" /\ fn_in.op = "AP1roG.overlap") =>
        /\ (Len(fn_out) = 1 /\ fn_in.phi # 0 /\ fn_in.phi \in Range(fn_in.pspace)) =>
                excite_count(olp_self, fn_in.phi) \in {0, 1, 2}
        /\ (PassesPrefilter /\ excite_count(olp_self, fn_in.phi) > 2) => Len(fn_out) = 2

\* C13 as amended: AP1roG.overlap evaluates a closed form only for
\* excite_count 0, 1 or 2; a determinant of the projection space with a higher
\* count raises instead of returning a value, and a determinant outside the
\* projection space returns 0 whatever its count.
C13_HigherCountInPspaceRaises ==
    (fn_pc = "done" /\ fn_in.op = "AP1roG.overlap") =>
        /\ (Len(fn_out) = 1 /\ fn_in.phi # 0 /\ fn_in.phi \in Range(fn_in.pspace)) =>
                excite_count(olp_self, fn_in.phi) \in {0, 1, 2}
        /\ (excite_count(olp_self, fn_in.phi) > 2 /\ fn_in.phi \in Range(fn_in.pspace)) =>
                (Len(fn_out) = 2 /\ fn_out[2] = "Exception")
        /\ (fn_in.phi # 0 /\ fn_in.phi \notin Range(fn_in.pspace)) => Returns(0)

\* a triple pair excitation of the projection space was asked for and raised
C13_Witness ==
    /\ fn_pc = "done" /\ fn_in.op = "AP1roG.overlap"
    /\ excite_count(olp_self, fn_in.phi) = 3
    /\ fn_in.phi \in Range(fn_in.pspace)
    /\ Len(fn_out) = 2

-----------------------------------------------------------------------------
(* Properties of the Hamiltonian integration (SpecHam) *)

\* a call on a determinant with equal alpha and beta occupations returned
ClosedShellReturned == fn_pc = "done" /\ alpha_equals_beta(fn_in.sd)

-----------------------------------------------------------------------------
(* Properties of the residual and the Jacobian (Spec) *)

\* the root-finder's last callback was nonlin, whose result is in vec_last
ResidualReturned == system = "geminal" /\ pc = "solving" /\ last_op = "nonlin"

\* C(x), E = <ref|H|Psi(x)> of the last callback
C_last == construct_guess(Self, x_last)
energy_last == phi_H_psi(Self, ground(w_npairs), C_last)

\* E*<Phi|Psi> - <Phi|H|Psi> for the determinant sd, at the last x
projected_equation(sd) ==
    energy_last * overlap(Self, sd, C_last) - phi_H_psi(Self, sd, C_last)

\* C15: after nonlin(x, proj), with normalization the entry at index 0 is
\* <ref|Psi(x)> - 1, and the remaining entries are, in order, one
\* E*<Phi_d|Psi> - <Phi_d|H|Psi> for every determinant of proj (the projection
\* space without the reference), none skipped, none repeated.
C15_OneEquationPerProjectedDeterminant ==
    ResidualReturned =>
        /\ normalize(Self) => vec_last[0] = overlap(Self, ground(w_npairs), C_last) - 1
        /\ size(vec_last) = eqn_offset(Self) + Len(w_proj)
        /\ \A d \in 1..Len(w_proj) :
                vec_last[eqn_offset(Self) + d - 1] = projected_equation(w_proj[d])

\* nonlin_jac returned the Jacobian of the call's x0
JacobianReturned == fn_pc = "done" /\ fn_in.op = "nonlin_jac"

\* x0 with the coefficient number count moved by step
x0_moved(count, step) == [fn_in.x0 EXCEPT ![count] = @ + step]

\* twice the derivative of residual entry e with respect to coefficient
\* number count: the residual is a polynomial of degree at most two in each
\* single coefficient, for which the central difference is exact
twice_residual_derivative(e, count) ==
    nonlin(jac_self, x0_moved(count, 1), default_proj(jac_self))[e]
        - nonlin(jac_self, x0_moved(count, -1), default_proj(jac_self))[e]

\* C16: every entry jac[e][count] nonlin_jac returns is the derivative, with
\* respect to the coefficient number count, of entry e of the residual nonlin
\* returns for the same x0 and proj: same determinant, same row offset.
C16_JacobianIsResidualDerivative ==
    JacobianReturned =>
        \A e \in DOMAIN fn_out[1], count \in DOMAIN fn_in.x0 :
            2 * fn_out[1][e][count] = twice_residual_derivative(e, count)

-----------------------------------------------------------------------------
(* Properties of the integral assignment (SpecInt) *)

\* the integrals handed in satisfy the invariants: H and Hb symmetric, G with
\* <ij|kl> = <ji|lk> = <kl|ij>
IntegralsValid ==
    /\ is_symmetric(fn_in.Ha) /\ is_symmetric(fn_in.Hb)
    /\ is_jilk_symmetric(fn_in.Ga) /\ is_klij_symmetric(fn_in.Ga)

\* C17: every assignment of integrals that violate the invariants fails and
\* stores nothing: after ham = (H, G), Wavefunction.assign_integrals or
\* BaseUnrestrictedHamiltonian.assign_integrals, integrals are stored only if
\* H is Hermitian and G has the permutational symmetry.
C17_AssignmentValidatesIntegrals ==
    (system = "integrals" /\ fn_pc = "done") =>
        /\ ~IntegralsValid => (Len(fn_out) = 2 /\ ham = None)
        /\ ham # None => IntegralsValid

-----------------------------------------------------------------------------
(* Properties of math_tools' permanents (SpecMath) *)

\* a permanent routine returned a value for a square matrix
SquareReturned == fn_pc = "done" /\ fn_in.nrow = fn_in.ncol /\ fn_in.nrow >= 1

\* a permanent routine returned a value for a matrix that is not square
RectangularReturned ==
    fn_pc = "done" /\ fn_in.nrow # fn_in.ncol /\ fn_in.nrow >= 1 /\ fn_in.ncol >= 1

\* the two routines on the call's matrix
combinatoric_of_input == permanent_combinatoric(fn_in.matrix, fn_in.nrow, fn_in.ncol)
ryser_of_input == permanent_ryser(fn_in.matrix, fn_in.nrow, fn_in.ncol)

\* the value v is the fraction f.num / f.den
IsFraction(v, f) == f.den * v = f.num

\* C19: for every square matrix, permanent_combinatoric and permanent_ryser
\* return the same value.
C19_RyserEqualsCombinatoricOnSquare ==
    SquareReturned =>
        /\ fn_in.op = "permanent_ryser" =>
                (fn_out[1].den = 1 /\ fn_out[1].num = combinatoric_of_input)
        /\ fn_in.op = "permanent_combinatoric" => IsFraction(fn_out[1], ryser_of_input)

\* permanent_ryser returned a nonzero permanent of a 3-by-3 matrix with a
\* negative entry
C19_Witness ==
    /\ SquareReturned /\ fn_in.op = "permanent_ryser"
    /\ fn_in.nrow = 3
    /\ fn_in.matrix[0][2] < 0
    /\ fn_out[1].num # 0

\* the routines on the transpose of the call's matrix
combinatoric_of_transpose ==
    permanent_combinatoric(transpose(fn_in.matrix, fn_in.nrow, fn_in.ncol),
                           fn_in.ncol, fn_in.nrow)
ryser_of_transpose ==
    permanent_ryser(transpose(fn_in.matrix, fn_in.nrow, fn_in.ncol), fn_in.ncol, fn_in.nrow)

\* C20: for every m-by-n matrix with m # n, in either orientation,
\* permanent_ryser (padding to square, dividing by (n - m)!) returns the value
\* permanent_combinatoric returns, and each routine returns the same value
\* for the matrix and for its transpose.
C20_RyserEqualsCombinatoricOnRectangular ==
    RectangularReturned =>
        /\ fn_in.op = "permanent_ryser" =>
                /\ IsFraction(combinatoric_of_input, fn_out[1])
                /\ fn_out[1] = ryser_of_transpose
        /\ fn_in.op = "permanent_combinatoric" =>
                /\ IsFraction(fn_out[1], ryser_of_input)
                /\ fn_out[1] = combinatoric_of_transpose

\* permanent_ryser returned a nonzero permanent of a 3-by-2 matrix, which it
\* transposed, padded and divided by 1!
C20_Witness ==
    /\ RectangularReturned /\ fn_in.op = "permanent_ryser"
    /\ fn_in.nrow = 3 /\ fn_in.ncol = 2
    /\ fn_out[1].den = 1
    /\ fn_out[1].num # 0

-----------------------------------------------------------------------------
(* Properties of adjugate and permanent_borchardt (SpecSing) *)

\* the Cauchy matrix 1 / (lambdas[i] - epsilons[j]) of the call has two equal
\* rows or two equal columns, so a square submatrix the routine divides by is
\* singular
SingularCauchy ==
    /\ fn_in.op = "permanent_borchardt"
    /\ \/ /\ Len(fn_in.lambdas) <= Len(fn_in.epsilons)
          /\ \E i, j \in 1..Len(fn_in.lambdas) : i # j /\ fn_in.lambdas[i] = fn_in.lambdas[j]
       \/ /\ Len(fn_in.epsilons) <= Len(fn_in.lambdas)
          /\ \E i, j \in 1..Len(fn_in.epsilons) : i # j /\ fn_in.epsilons[i] = fn_in.epsilons[j]

\* C18: a singular matrix is raised as an error: adjugate raises whenever
\* det(A) is 0 (within 1e-12) and otherwise returns, and permanent_borchardt
\* raises instead of returning a value when a Cauchy submatrix it divides by
\* is singular.
C18_SingularMatrixRaises ==
    fn_pc = "done" =>
        /\ fn_in.op = "adjugate" =>
                (Len(fn_out) = 2 <=> det(fn_in.matrix, fn_in.n) = 0)
        /\ SingularCauchy => Len(fn_out) = 2

-----------------------------------------------------------------------------
(* The determinant machine: one call of one bit operation of slater_det on *)
(* a determinant of MaxBits spin orbitals, the indices running one past    *)
(* the last orbital.                                                       *)

MaxBits == 4

MaxIndices == 2

\* sd & ~(1 << i) for each named index in turn, 0 at the first index that is
\* not occupied
RECURSIVE remove_orbs(_, _)
remove_orbs(sd, indices) ==
    IF indices = <<>> THEN sd
    ELSE IF is_occupied(sd, Head(indices))
         THEN remove_orbs(sd - (2 ^ Head(indices)), Tail(indices))
         ELSE 0

RECURSIVE add_orbs_mut(_, _)
add_orbs_mut(sd, indices) ==
    IF indices = <<>> THEN sd
    ELSE IF is_occupied(sd, Head(indices))
         THEN add_orbs_mut(sd, Tail(indices))
         ELSE add_orbs_mut(sd + (2 ^ Head(indices)), Tail(indices))

\* sd | (1 << i) for each named index in turn, 0 at the first index that is
\* already occupied
RECURSIVE add_orbs(_, _)
add_orbs(sd, indices) ==
    IF indices = <<>> THEN sd
    ELSE IF is_occupied(sd, Head(indices))
         THEN 0
         ELSE add_orbs(sd + (2 ^ Head(indices)), Tail(indices))

excite_mut(sd, i, j) == add_orbs(remove_orbs(sd, <<i>>), <<j>>)

\* excite(sd, i, j): the single excitation the callers import as excite_orbs
excite(sd, i, j) == excite_orbs(sd, i, j)

\* both spin orbitals of each named spatial orbital removed in turn, 0 at the
\* first one that is not doubly occupied
RECURSIVE remove_pairs(_, _)
remove_pairs(sd, indices) ==
    IF indices = <<>> THEN sd
    ELSE IF is_pair_occupied(sd, Head(indices))
         THEN remove_pairs(sd - PairBits(Head(indices)), Tail(indices))
         ELSE 0

RECURSIVE add_pairs_mut(_, _)
add_pairs_mut(sd, indices) ==
    IF indices = <<>> THEN sd
    ELSE IF is_pair_occupied(sd, Head(indices))
         THEN 0
         ELSE add_pairs_mut(sd + PairBits(Head(indices))
                               - (((sd \div (2 ^ (2 * Head(indices)))) % 4)
                                      * (2 ^ (2 * Head(indices)))),
                            Tail(indices))

\* both spin orbitals of each named spatial orbital added in turn, 0 at the
\* first one that is not empty
RECURSIVE add_pairs(_, _)
add_pairs(sd, indices) ==
    IF indices = <<>> THEN sd
    ELSE IF is_pair_empty(sd, Head(indices))
         THEN add_pairs(sd + PairBits(Head(indices)), Tail(indices))
         ELSE 0

\* the index lists of one call: 1..MaxIndices indices out of 0..top
IndexLists(top) == UNION {[1..n -> 0..top] : n \in 1..MaxIndices}

SdInit ==
    /\ NoWavefunction
    /\ NoGenerator
    /\ NoObject
    /\ fn_pc = "input"
    /\ fn_out = None
    /\ \E sd \in 0..((2 ^ MaxBits) - 1) :
          \/ \E op \in {"remove_orbs", "add_orbs"}, l \in IndexLists(MaxBits) :
                fn_in = [op |-> op, sd |-> sd, indices |-> l]
          \/ \E op \in {"remove_pairs", "add_pairs"}, l \in IndexLists(MaxBits \div 2) :
                fn_in = [op |-> op, sd |-> sd, indices |-> l]
          \/ \E i \in 0..MaxBits, j \in 0..MaxBits :
                fn_in = [op |-> "excite", sd |-> sd, indices |-> <<i, j>>]
          \/ \E i \in 0..(MaxBits \div 2), j \in 0..(MaxBits \div 2) :
                fn_in = [op |-> "excite_pairs", sd |-> sd, indices |-> <<i, j>>]

sd_frame == UNCHANGED <<fn_in, genVars, wfnVars, objVars, solveVars>>

\* remove_orbs(sd, *indices)
call_remove_orbs ==
    /\ fn_pc = "input" /\ fn_in.op = "remove_orbs"
    /\ fn_out' = <<remove_orbs(fn_in.sd, fn_in.indices)>>
    /\ fn_pc' = "done"
    /\ sd_frame

\* add_orbs(sd, *indices)
call_add_orbs ==
    /\ fn_pc = "input" /\ fn_in.op = "add_orbs"
    /\ fn_out' = <<add_orbs(fn_in.sd, fn_in.indices)>>
    /\ fn_pc' = "done"
    /\ sd_frame

\* excite(sd, i, j), and back: excite(excite(sd, i, j), j, i)
call_excite ==
    /\ fn_pc \in {"input", "excited"} /\ fn_in.op = "excite"
    /\ IF fn_pc = "input"
       THEN /\ fn_out' = <<excite(fn_in.sd, fn_in.indices[1], fn_in.indices[2])>>
            /\ fn_pc' = "excited"
       ELSE /\ fn_out' = <<excite(fn_out[1], fn_in.indices[2], fn_in.indices[1])>>
            /\ fn_pc' = "done"
    /\ sd_frame

\* remove_pairs(sd, *indices)
call_remove_pairs ==
    /\ fn_pc = "input" /\ fn_in.op = "remove_pairs"
    /\ fn_out' = <<remove_pairs(fn_in.sd, fn_in.indices)>>
    /\ fn_pc' = "done"
    /\ sd_frame

\* add_pairs(sd, *indices)
call_add_pairs ==
    /\ fn_pc = "input" /\ fn_in.op = "add_pairs"
    /\ fn_out' = <<add_pairs(fn_in.sd, fn_in.indices)>>
    /\ fn_pc' = "done"
    /\ sd_frame

\* excite_pairs(sd, i, j)
call_excite_pairs ==
    /\ fn_pc = "input" /\ fn_in.op = "excite_pairs"
    /\ fn_out' = <<excite_pairs(fn_in.sd, <<fn_in.indices[1]>>, <<fn_in.indices[2]>>)>>
    /\ fn_pc' = "done"
    /\ sd_frame

SdNext ==
    \/ call_remove_orbs
    \/ call_add_orbs
    \/ call_excite
    \/ call_remove_pairs
    \/ call_add_pairs
    \/ call_excite_pairs

SpecSd == SdInit /\ [][SdNext]_vars

\* the call of the determinant machine has returned
SdReturned(op) == fn_pc = "done" /\ Len(fn_out) = 1 /\ fn_in.op = op

\* the determinant whose occupied orbitals are the set S
sd_of(S) == SeqSum([k \in 1..(MaxBits + 2) |-> IF (k - 1) \in S THEN 2 ^ (k - 1) ELSE 0])

\* the occupied orbitals of a determinant
occ_of(sd) == {b \in 0..(MaxBits + 1) : is_occupied(sd, b)}

\* every order the indices of the call can be given in
Reordered(indices) ==
    {[k \in 1..Len(indices) |-> indices[q[k]]] : q \in Orderings(1..Len(indices))}

\* C21: remove_orbs returns 0 if a named bit is unoccupied and add_orbs
\* returns 0 if a named bit is occupied, both return 0 if an index repeats;
\* otherwise exactly the named bits are cleared (set) and the others are
\* unchanged, whatever the order of the indices.
C21_NamedBitsClearedOrSet ==
    \A op \in {"remove_orbs", "add_orbs"} :
        SdReturned(op) =>
            LET sd == fn_in.sd
                indices == fn_in.indices
                named == Range(indices)
                ok == /\ NoDuplicates(indices)
                      /\ \A b \in named : is_occupied(sd, b) = (op = "remove_orbs")
                expected == IF op = "remove_orbs" THEN sd_of(occ_of(sd) \ named)
                            ELSE sd_of(occ_of(sd) \cup named)
            IN  /\ fn_out[1] = IF ok THEN expected ELSE 0
                /\ \A l \in Reordered(indices) :
                      fn_out[1] = IF op = "remove_orbs" THEN remove_orbs(sd, l)
                                  ELSE add_orbs(sd, l)

C21_Witness ==
    \/ /\ SdReturned("remove_orbs")
       /\ fn_in.sd = 14 /\ fn_in.indices = <<2, 1>> /\ fn_out = <<8>>
    \/ /\ SdReturned("add_orbs")
       /\ fn_in.sd = 8 /\ fn_in.indices = <<1, 2>> /\ fn_out = <<14>>

\* the first excite of the call has returned
ExciteReturned == fn_pc = "excited" /\ Len(fn_out) = 1 /\ fn_in.op = "excite"

\* C22 as stated: excite(sd, i, j) is add_orbs(remove_orbs(sd, i), j) on
\* every input.
C22_ExciteIsAddAfterRemove ==
    ExciteReturned =>
        fn_out[1] = add_orbs(remove_orbs(fn_in.sd, <<fn_in.indices[1]>>),
                             <<fn_in.indices[2]>>)

\* C22: excite(sd, i, j) returns 0 if i is unoccupied or if j is occupied
\* and is not i; in every other case it is add_orbs(remove_orbs(sd, i), j).
\* With i unoccupied the composition is not 0 but the determinant of j alone.
C22_ExciteIsAddAfterRemoveOfOccupied ==
    ExciteReturned =>
        LET sd == fn_in.sd
            i == fn_in.indices[1]
            j == fn_in.indices[2]
            composed == add_orbs(remove_orbs(sd, <<i>>), <<j>>)
        IN  /\ ~is_occupied(sd, i) => fn_out[1] = 0 /\ composed = 2 ^ j
            /\ is_occupied(sd, i) => fn_out[1] = composed
            /\ is_occupied(sd, j) /\ j # i => fn_out[1] = 0

C22_Witness ==
    /\ ExciteReturned
    /\ fn_in.sd = 4 /\ fn_in.indices = <<0, 1>> /\ fn_out = <<0>>
    /\ add_orbs(remove_orbs(4, <<0>>), <<1>>) = 2

\* C23: for an occupied i and an unoccupied j, exciting i to j and then j
\* back to i returns the determinant the call started from.
C23_ExciteIsSelfInverse ==
    SdReturned("excite") =>
        (is_occupied(fn_in.sd, fn_in.indices[1]) /\ ~is_occupied(fn_in.sd, fn_in.indices[2])
            => fn_out[1] = fn_in.sd)

C23_Witness ==
    /\ SdReturned("excite")
    /\ fn_in.sd = 9 /\ fn_in.indices = <<3, 1>> /\ fn_out = <<9>>

\* C24: remove_pairs, add_pairs and excite_pairs return 0 if a named spatial
\* orbital is partially occupied, if a pair to remove is empty or if a pair
\* to add is full when it is added; a non-zero result differs from the
\* determinant in both spin orbitals of each named spatial orbital and in
\* nothing else.
C24_PairsMoveTogether ==
    \A op \in {"remove_pairs", "add_pairs", "excite_pairs"} :
        SdReturned(op) =>
            LET sd == fn_in.sd
                indices == fn_in.indices
                out == fn_out[1]
                removed == IF op = "remove_pairs" THEN Range(indices)
                           ELSE IF op = "excite_pairs" THEN {indices[1]} ELSE {}
                added == IF op = "add_pairs" THEN Range(indices)
                         ELSE IF op = "excite_pairs" THEN {indices[2]} ELSE {}
                partial(p) == is_occupied(sd, 2 * p) # is_occupied(sd, 2 * p + 1)
            IN  /\ (\E p \in removed \cup added : partial(p)) => out = 0
                /\ (\E p \in removed : is_pair_empty(sd, p)) => out = 0
                /\ (\E p \in added \ removed : is_pair_occupied(sd, p)) => out = 0
                /\ out # 0 =>
                      \A p \in 0..((MaxBits \div 2) + 1) :
                          /\ is_occupied(out, 2 * p) = is_occupied(out, 2 * p + 1)
                                \/ p \notin removed \cup added
                          /\ is_occupied(out, 2 * p) =
                                IF p \in added THEN TRUE
                                ELSE IF p \in removed THEN FALSE
                                ELSE is_occupied(sd, 2 * p)
                          /\ is_occupied(out, 2 * p + 1) =
                                IF p \in added THEN TRUE
                                ELSE IF p \in removed THEN FALSE
                                ELSE is_occupied(sd, 2 * p + 1)

C24_Witness ==
    \/ /\ SdReturned("excite_pairs")
       /\ fn_in.sd = 3 /\ fn_in.indices = <<0, 1>> /\ fn_out = <<12>>
    \/ /\ SdReturned("remove_pairs")
       /\ fn_in.sd = 15 /\ fn_in.indices = <<1>> /\ fn_out = <<3>>

-----------------------------------------------------------------------------
(* The rebinding machine: one call of nonlin_jac(x0, proj) on an object    *)
(* with a projection space given to its constructor, stepped at the        *)
(* statements that bind self.overlap, with the exceptions AP1roG.overlap   *)
(* raises.                                                                 *)

RebindMaxOrbs == 2

RebindMaxExtra == 2

\* the determinants double_phi_H_psi hands to self.overlap
overlap_calls_double(self, sd) ==
    {sd} \cup {excite_pairs(sd, <<i>>, <<a>>) :
                  i \in {i \in 0..(self.norbs - 1) : is_pair_occupied(sd, i)},
                  a \in {a \in 0..(self.norbs - 1) : ~is_pair_occupied(sd, a)}}

\* the determinants brute_phi_H_psi hands to self.overlap
overlap_calls_brute(self, sd) ==
    LET ind_occ == Ascending({i \in 0..(2 * self.norbs - 1) : is_occupied(sd, i)})
        ind_vir == {i \in 0..(2 * self.norbs - 1) : ~is_occupied(sd, i)}
        temp1(a) == Ascending(ind_vir \cup {ind_occ[a]})
        single(a, b) == excite_orbs(sd, ind_occ[a], temp1(a)[b])
        temp2(a, b, c) ==
            sorted(<<ind_occ[c]>> \o SubSeq(temp1(a), b + 1, Len(temp1(a))))
    IN  UNION {UNION {
            (IF ind_occ[a] % 2 = temp1(a)[b] % 2 THEN {single(a, b)} ELSE {})
            \cup {excite_orbs(single(a, b), ind_occ[c], temp2(a, b, c)[d]) :
                     <<c, d>> \in {cd \in ((a + 1)..Len(ind_occ)) \X (1..(Len(temp1(a)) + 1)) :
                                      cd[2] <= Len(temp2(a, b, cd[1]))}}
            : b \in 1..Len(temp1(a))} : a \in 1..Len(ind_occ)}

\* self.overlap(phi, C) raises: APIG.overlap always returns
overlap_raises(self, phi) == self.cls = "AP1roG" /\ AP1roG_overlap_raises(self, phi)

\* phi_H_psi(sd, C) raises: one of its overlap evaluations does
phi_H_psi_raises(self, sd) ==
    \E phi \in (IF alpha_equals_beta(sd) THEN overlap_calls_double(self, sd)
                ELSE overlap_calls_brute(self, sd)) : overlap_raises(self, phi)

\* the determinants the pspace setter accepts
setter_accepts(np, no) ==
    {sd \in 0..((2 ^ (2 * no)) - 1) :
        popcount(sd) = 2 * np /\ (np > 2 => alpha_equals_beta(sd))}

\* the projection spaces given to the constructor: the ground state and up to
\* RebindMaxExtra more determinants
RebindSpaces(np, no) ==
    {<<ground(np)>> \o Ascending(S) :
        S \in {S \in SUBSET (setter_accepts(np, no) \ {ground(np)}) :
                  Cardinality(S) <= RebindMaxExtra}}

\* tmp_olp = self.overlap: the evaluator bound when the call starts
tmp_olp == ValueMode

RebindInit ==
    /\ NoWavefunction
    /\ NoGenerator
    /\ NoCall
    /\ system = "rebind"
    /\ \E c \in {"APIG", "AP1roG"}, no \in 2..RebindMaxOrbs :
       \E np \in 1..(no - 1) :
          /\ cls = c /\ w_npairs = np /\ w_norbs = no
          /\ ham = test_ham(no)
          /\ pspace \in RebindSpaces(np, no)
          /\ \E n \in {nparams([cls |-> c, npairs |-> np, norbs |-> no])} :
                /\ w_proj \in [1..n -> setter_accepts(np, no)]
                /\ x_last \in {[k \in 0..(n - 1) |-> 2 * a] : a \in 0..1}
    /\ coeffs = None /\ olp_attr = ValueMode /\ pc = "jac_idle"
    /\ jac_given = FALSE /\ vec_last = None /\ jac_last = None
    /\ nfev = 0 /\ njev = 0 /\ result = "none" /\ result_x = None
    /\ notice = FALSE /\ coeffs_before = None
    /\ last_op = "init" /\ stored_x = None

rebind_frame ==
    UNCHANGED <<genVars, wfnVars, fnVars, objVars, coeffs, w_proj, jac_given, x_last, vec_last,
                nfev, result_x, notice, coeffs_before, last_op, stored_x>>

\* nonlin_jac up to "tmp_olp = self.overlap": energy and phi_psi_tmp
nonlin_jac_enters ==
    /\ pc = "jac_idle"
    /\ IF \/ phi_H_psi_raises(Self, ground(w_npairs))
          \/ \E d \in 1..size(x_last) : overlap_raises(Self, w_proj[d])
       THEN pc' = "jac_raised" /\ result' = "raise"
       ELSE pc' = "jac_loop" /\ result' = result
    /\ UNCHANGED <<olp_attr, njev, jac_last>>
    /\ rebind_frame

\* one pass of "for i in self._row_indices: for j in self._col_indices":
\* self.overlap = olp_der, then column count of the Jacobian
nonlin_jac_column ==
    /\ pc = "jac_loop"
    /\ njev < Len(Product(row_indices(Self), col_indices(Self)))
    /\ olp_attr' = DerivMode(coords_of(Self, njev)[1], coords_of(Self, njev)[2])
    /\ LET der == [Self EXCEPT !.overlap = olp_attr']
       IN  IF \/ normalize(Self) /\ overlap_raises(der, ground(w_npairs))
              \/ \E d \in 1..(size(x_last) - eqn_offset(Self)) :
                    \/ phi_H_psi_raises(der, ground(w_npairs))
                    \/ overlap_raises(der, w_proj[d])
                    \/ phi_H_psi_raises(der, w_proj[d])
           THEN pc' = "jac_raised" /\ result' = "raise" /\ njev' = njev
           ELSE pc' = "jac_loop" /\ result' = result /\ njev' = njev + 1
    /\ UNCHANGED jac_last
    /\ rebind_frame

\* "self.overlap = tmp_olp; return jac"
nonlin_jac_returns ==
    /\ pc = "jac_loop"
    /\ njev = Len(Product(row_indices(Self), col_indices(Self)))
    /\ olp_attr' = tmp_olp
    /\ jac_last' = nonlin_jac([Self EXCEPT !.overlap = tmp_olp], x_last, w_proj)
    /\ pc' = "jac_done"
    /\ result' = "return"
    /\ UNCHANGED njev
    /\ rebind_frame

RebindNext == nonlin_jac_enters \/ nonlin_jac_column \/ nonlin_jac_returns

SpecRebind == RebindInit /\ [][RebindNext]_vars

\* nonlin_jac has exited, by return or by exception
JacExited == system = "rebind" /\ pc \in {"jac_done", "jac_raised"}

\* C25: on every exit from nonlin_jac, by return or by an exception raised
\* while the derivative-mode evaluator is bound, self.overlap is the
\* value-mode evaluator it was before the call.
C25_OverlapRestoredOnEveryExit == JacExited => olp_attr = ValueMode

-----------------------------------------------------------------------------
(* The composite machine: a NonorthWavefunction (composite package) over   *)
(* an inner wavefunction, with assign_params and get_overlap(sd) called in *)
(* any order.  Spin orbitals are numbered alpha first: bit i is alpha      *)
(* orbital i, bit i + nspatial is beta orbital i.                          *)

CompMaxSpatial == 2

CompMaxCached == 2

\* slater.occ_indices(sd)
occ_indices(sd, nspin) == Ascending({i \in 0..(nspin - 1) : is_occupied(sd, i)})

\* slater.create(0, *indices)
create(indices) == SeqSum([k \in 1..Len(indices) |-> 2 ^ indices[k]])

\* matrix[row_inds, :][:, col_inds]
submatrix(matrix, row_inds, col_inds) ==
    [r \in 0..(Len(row_inds) - 1) |-> [c \in 0..(Len(col_inds) - 1) |->
        matrix[row_inds[r + 1]][col_inds[c + 1]]]]

\* self.wfn.get_overlap(nonorth_sd, deriv=None): the inner wavefunction, a
\* fixed table of coefficients
wfn_get_overlap(sd) == 1 + (sd % 3)

\* orbtype
orbtype(self) ==
    IF Len(self.params) = 1 /\ self.params[1].rows = self.nspin \div 2
    THEN "restricted"
    ELSE IF /\ Len(self.params) = 2
            /\ self.params[1].rows = self.nspin \div 2
            /\ self.params[2].rows = self.nspin \div 2
         THEN "unrestricted"
    ELSE IF Len(self.params) = 1 /\ self.params[1].rows = self.nspin
         THEN "generalized"
    ELSE "NotImplementedError"

\* the determinant coefficient of one block: 1.0 for no rows
block_coeff(matrix, row_inds, col_inds) ==
    IF Len(col_inds) = 0 THEN 1
    ELSE det(submatrix(matrix, row_inds, col_inds), Len(row_inds))

\* _olp(sd), the function get_overlap caches
olp_uncached(self, sd) ==
    IF orbtype(self) = "generalized"
    THEN LET row_inds == occ_indices(sd, self.nspin)
             cols == combinations(Ascending(0..(self.nspin - 1)), self.nelec)
         IN  SeqSum([k \in 1..Len(cols) |->
                 wfn_get_overlap(create(cols[k]))
                     * det(submatrix(self.params[1].m, row_inds, cols[k]), self.nelec)])
    ELSE LET nspatial == self.nspin \div 2
             alpha_row_inds == occ_indices(sd % (2 ^ nspatial), nspatial)
             beta_row_inds == occ_indices(sd \div (2 ^ nspatial), nspatial)
             all_col_inds == Ascending(0..(nspatial - 1))
             alphas == combinations(all_col_inds, Len(alpha_row_inds))
             betas == combinations(all_col_inds, Len(beta_row_inds))
             i == IF orbtype(self) = "restricted" THEN 1 ELSE 2
         IN  SeqSum([a \in 1..Len(alphas) |->
                 SeqSum([b \in 1..Len(betas) |->
                     wfn_get_overlap(create(alphas[a] \o
                                            [k \in 1..Len(betas[b]) |-> betas[b][k] + nspatial]))
                         * block_coeff(self.params[1].m, alpha_row_inds, alphas[a])
                         * block_coeff(self.params[i].m, beta_row_inds, betas[b])])])

\* the n-by-n transformation matrix with entries a on the diagonal, b above
\* it and c below it
transformation(n, a, b, c) ==
    [rows |-> n, cols |-> n,
     m |-> [r \in 0..(n - 1) |-> [k \in 0..(n - 1) |->
              IF r = k THEN a ELSE IF r < k THEN b ELSE c]]]

\* the params arguments: one or two spatial matrices, one spin matrix, and a
\* matrix of the wrong shape
ParamChoices(nspin) ==
    LET spatial == {transformation(nspin \div 2, 1, b, c) : b \in 0..1, c \in 0..1}
    IN  {<<t>> : t \in spatial}
        \cup {<<transformation(nspin \div 2, 1, 0, 0), t>> : t \in spatial}
        \cup {<<transformation(nspin, 1, b, 0)>> : b \in 0..1}
        \cup {<<transformation(nspin + 1, 1, 0, 0)>>}

\* assign_params accepts the shapes of the matrices
params_valid(self, params) ==
    \A k \in 1..Len(params) :
        \/ params[k].rows = self.nspin \div 2 /\ params[k].cols = self.nspin \div 2
        \/ Len(params) = 1 /\ params[k].rows = self.nspin /\ params[k].cols = self.nspin

\* the Slater determinants of nelec electrons in nspin spin orbitals
CompDets(self) == {sd \in 0..((2 ^ self.nspin) - 1) : popcount(sd) = self.nelec}

\* BaseCompositeOneWavefunction.__init__: assign_params(params), then
\* self._cache_fns = {}
CompInit ==
    /\ NoGenerator
    /\ NoObject
    /\ fn_in = None /\ fn_out = None /\ fn_pc = "idle"
    /\ frame = <<>>
    /\ cache_fns = <<>>
    /\ \E ns \in 1..CompMaxSpatial :
       \E ne \in 1..(2 * ns) :
       \E p \in ParamChoices(2 * ns) :
          /\ params_valid([nspin |-> 2 * ns], p)
          /\ w_self = [nelec |-> ne, nspin |-> 2 * ns, params |-> p]

comp_frame == UNCHANGED <<genVars, objVars, solveVars, frame>>

\* assign_params(params)
assign_params ==
    /\ fn_pc \in {"idle", "done"}
    /\ \E p \in ParamChoices(w_self.nspin) :
          /\ fn_in' = [op |-> "assign_params", params |-> p]
          /\ IF params_valid(w_self, p)
             THEN w_self' = [w_self EXCEPT !.params = p] /\ fn_out' = <<None>>
             ELSE w_self' = w_self /\ fn_out' = <<"raise", "ValueError">>
    /\ fn_pc' = "done"
    /\ UNCHANGED cache_fns
    /\ comp_frame

\* the memo table of the cached function key
memo_of(fns, key) == IF key \in DOMAIN fns THEN fns[key] ELSE <<>>

\* get_overlap(sd, deriv=None): the lru_cache of _olp is created at the first
\* call, answers a determinant it holds and stores a determinant it computes
get_overlap ==
    /\ fn_pc \in {"idle", "done"}
    /\ \E sd \in CompDets(w_self) :
          LET memo == memo_of(cache_fns, "overlap")
              hit == sd \in DOMAIN memo
              value == IF hit THEN memo[sd] ELSE olp_uncached(w_self, sd)
          IN  /\ hit \/ Cardinality(DOMAIN memo) < CompMaxCached
              /\ fn_in' = [op |-> "get_overlap", sd |-> sd]
              /\ fn_out' = <<value>>
              /\ cache_fns' = ("overlap" :> ((sd :> value) @@ memo))
    /\ fn_pc' = "done"
    /\ UNCHANGED w_self
    /\ comp_frame

CompNext == assign_params \/ get_overlap

SpecComp == CompInit /\ [][CompNext]_vars

\* get_overlap(sd) has returned
OverlapReturned == fn_pc = "done" /\ fn_in.op = "get_overlap" /\ Len(fn_out) = 1

\* C26: the overlap get_overlap(sd) returns is the overlap computed from the
\* parameters assigned last; a value cached under earlier parameters is
\* never returned.
C26_OverlapFollowsAssignedParams ==
    OverlapReturned => fn_out[1] = olp_uncached(w_self, fn_in.sd)

-----------------------------------------------------------------------------
(* The nonorth machine: one call of get_overlap(sd) of the                 *)
(* NonorthWavefunction of the nonorth package, stepped at its calls of     *)
(* itself; frame is the stack of the determinants of the calls in progress.*)

RecursionLimit == 3

\* orbtype of the nonorth package: None when no branch is taken
nonorth_orbtype(self) ==
    IF Len(self.params) = 1 /\ self.params[1].rows = self.nspin \div 2
    THEN "restricted"
    ELSE IF Len(self.params) = 2 THEN "unrestricted"
    ELSE IF Len(self.params) = 1 /\ self.params[1].rows = self.nspin
         THEN "generalized"
    ELSE "None"

\* it.combinations(all_col_inds, self.nelec) of the generalized branch
generalized_col_inds(self) ==
    combinations(Ascending(0..(self.nspin - 1)), self.nelec)

NonorthInit ==
    /\ NoGenerator
    /\ NoObject
    /\ fn_out = None /\ fn_pc = "input"
    /\ frame = <<>>
    /\ cache_fns = <<>>
    /\ \E ns \in 1..CompMaxSpatial :
       \E ne \in 1..(2 * ns) :
       \E p \in ParamChoices(2 * ns) :
          /\ params_valid([nspin |-> 2 * ns], p)
          /\ w_self = [nelec |-> ne, nspin |-> 2 * ns, params |-> p]
          /\ \E sd \in CompDets(w_self) : fn_in = [op |-> "get_overlap", sd |-> sd]

nonorth_frame == UNCHANGED <<genVars, objVars, solveVars, fn_in, w_self, cache_fns>>

\* one activation of get_overlap(sd, deriv=None) up to its first call of
\* self.get_overlap, its NameError or its return
nonorth_get_overlap ==
    /\ fn_pc \in {"input", "calling"}
    /\ IF nonorth_orbtype(w_self) = "generalized"
       THEN IF generalized_col_inds(w_self) = <<>>
            THEN /\ fn_out' = <<0>>
                 /\ fn_pc' = "done"
                 /\ frame' = frame
            ELSE IF Len(frame) + 1 >= RecursionLimit
            THEN /\ fn_out' = <<"raise", "RecursionError">>
                 /\ fn_pc' = "done"
                 /\ frame' = frame
            ELSE /\ fn_out' = fn_out
                 /\ fn_pc' = "calling"
                 /\ frame' = Append(frame, create(generalized_col_inds(w_self)[1]))
       ELSE /\ fn_out' = <<"raise", "NameError">>
            /\ fn_pc' = "done"
            /\ frame' = frame
    /\ nonorth_frame

NonorthNext == nonorth_get_overlap

SpecNonorth == NonorthInit /\ [][NonorthNext]_vars

\* C30: get_overlap terminates and returns a scalar for every determinant
\* and every orbital type: no exit is a NameError or the overflow of the
\* call stack.
C30_GetOverlapReturnsScalar ==
    (fn_pc = "done" /\ fn_in.op = "get_overlap") => Len(fn_out) = 1

\* C27: an APIG call without x0 whose inner AP1roG solve did not converge
\* (the warning was printed) still reaches the solver or reports a failure
\* status: it does not end by raising on the coefficients that were never
\* stored.
C27_UnconvergedGuessIsNotRaised ==
    (system = "geminal" /\ cls = "APIG" /\ notice) => result # "raised"

-----------------------------------------------------------------------------
(* The Gray-code machine: one call of permanent_ryser(matrix), stepped at  *)
(* the iterations of its while loop.  frame holds the locals of the loop;  *)
(* next to rowsums it keeps the row sums of the identity matrix (columns), *)
(* which count how often each column is in rowsums, and the list of the    *)
(* column subsets the products were taken over, with the sign of each.     *)

\* the locals before the first test of "not all(graycode)"
ryser_locals(matrix, nrow, ncol) ==
    LET n == Max2(nrow, ncol)
        m == Min2(nrow, ncol)
        wide == IF nrow > ncol THEN transpose(matrix, nrow, ncol) ELSE matrix
    IN  [matrix |-> IF nrow # ncol THEN pad(wide, m, n) ELSE matrix,
         ncol |-> n,
         den |-> IF nrow # ncol THEN factorial(n - m) ELSE 1,
         rowsums |-> [r \in 0..(n - 1) |-> 0],
         columns |-> [c \in 0..(n - 1) |-> 0],
         sign |-> first_sign(n),
         permanent |-> 0,
         graycode |-> [i \in 0..(n - 1) |-> FALSE],
         iters |-> 0,
         visited |-> <<>>]

ryser_step_mut(f) ==
    LET ncol == f.ncol
        cur_position == SetMin({i \in 0..(ncol - 1) : ~f.graycode[i]})
        code == [i \in 0..(ncol - 1) |-> IF i = cur_position THEN TRUE ELSE f.graycode[i]]
        cur_value == IF cur_position = ncol - 1 THEN code[ncol - 1]
                     ELSE ~(code[cur_position] /\ code[cur_position + 1])
        sums == [r \in 0..(ncol - 1) |->
                   IF cur_value THEN f.rowsums[r] + f.matrix[r][cur_position]
                   ELSE f.rowsums[r] - f.matrix[r][cur_position]]
        cols == [c \in 0..(ncol - 1) |->
                   IF c # cur_position THEN f.columns[c]
                   ELSE IF cur_value THEN f.columns[c] + 1 ELSE f.columns[c] - 1]
    IN  [f EXCEPT !.graycode = code, !.rowsums = sums, !.columns = cols,
                  !.sign = ~f.sign,
                  !.permanent = IF f.sign THEN f.permanent + prod_below(sums, ncol)
                                ELSE f.permanent - prod_below(sums, ncol),
                  !.iters = f.iters + 1,
                  !.visited = Append(f.visited, [columns |-> cols, added |-> f.sign])]

\* one iteration of "while not all(graycode)": the Gray-code update, the
\* rowsum update and the signed product
ryser_step(f) ==
    LET ncol == f.ncol
        cur_position == SetMin({i \in 0..(ncol - 1) : ~f.graycode[i]})
        code == [i \in 0..(ncol - 1) |->
                   IF i < cur_position THEN FALSE
                   ELSE IF i = cur_position THEN TRUE ELSE f.graycode[i]]
        cur_value == IF cur_position = ncol - 1 THEN code[ncol - 1]
                     ELSE ~(code[cur_position] /\ code[cur_position + 1])
        sums == [r \in 0..(ncol - 1) |->
                   IF cur_value THEN f.rowsums[r] + f.matrix[r][cur_position]
                   ELSE f.rowsums[r] - f.matrix[r][cur_position]]
        cols == [c \in 0..(ncol - 1) |->
                   IF c # cur_position THEN f.columns[c]
                   ELSE IF cur_value THEN f.columns[c] + 1 ELSE f.columns[c] - 1]
    IN  [f EXCEPT !.graycode = code, !.rowsums = sums, !.columns = cols,
                  !.sign = ~f.sign,
                  !.permanent = IF f.sign THEN f.permanent + prod_below(sums, ncol)
                                ELSE f.permanent - prod_below(sums, ncol),
                  !.iters = f.iters + 1,
                  !.visited = Append(f.visited, [columns |-> cols, added |-> f.sign])]

RyserInit ==
    /\ NoGenerator
    /\ NoObject
    /\ fn_pc = "input"
    /\ fn_out = None
    /\ w_self = <<>> /\ cache_fns = <<>> /\ frame = <<>>
    /\ \E nrow \in 1..MaxPermDim, ncol \in 1..MaxPermDim :
       \E e \in 0..MaxEntry, a \in 0..MaxEntry, b \in 0..MaxEntry, d \in 0..MaxEntry :
          fn_in = [op |-> "permanent_ryser", nrow |-> nrow, ncol |-> ncol,
                   matrix |-> math_matrix(nrow, ncol, e, a, b, d)]

ryser_frame == UNCHANGED <<fn_in, genVars, objVars, solveVars, w_self, cache_fns>>

\* permanent_ryser up to the first test of the loop condition
ryser_enters ==
    /\ fn_pc = "input"
    /\ frame' = ryser_locals(fn_in.matrix, fn_in.nrow, fn_in.ncol)
    /\ fn_pc' = "loop"
    /\ UNCHANGED fn_out
    /\ ryser_frame

\* "while not all(graycode)" holds: one iteration
ryser_iterates ==
    /\ fn_pc = "loop"
    /\ \E i \in 0..(frame.ncol - 1) : ~frame.graycode[i]
    /\ frame' = ryser_step(frame)
    /\ UNCHANGED <<fn_out, fn_pc>>
    /\ ryser_frame

\* all(graycode): return permanent * factor
ryser_returns ==
    /\ fn_pc = "loop"
    /\ \A i \in 0..(frame.ncol - 1) : frame.graycode[i]
    /\ fn_out' = <<[num |-> frame.permanent, den |-> frame.den]>>
    /\ fn_pc' = "done"
    /\ UNCHANGED frame
    /\ ryser_frame

RyserNext == ryser_enters \/ ryser_iterates \/ ryser_returns

SpecRyser == RyserInit /\ [][RyserNext]_vars

\* the loop is a sequential program: a step that can be taken is taken
SpecRyserFair == SpecRyser /\ WF_vars(RyserNext)

\* the columns one entry of visited was taken over
subset_of(v, ncol) == {c \in 0..(ncol - 1) : v.columns[c] = 1}

\* what holds of the loop at every test of its condition
RyserLoopInvariant ==
    fn_pc \in {"loop", "done"} =>
        LET n == frame.ncol
            visited == frame.visited
            S(k) == IF k = 0 THEN {} ELSE subset_of(visited[k], n)
        IN  /\ frame.iters = Len(visited)
            /\ frame.iters <= (2 ^ n) - 1
            /\ \A k \in 1..Len(visited) :
                  \* a set of columns, not empty, one column away from the last
                  /\ \A c \in 0..(n - 1) : visited[k].columns[c] \in {0, 1}
                  /\ S(k) # {}
                  /\ Cardinality((S(k) \ S(k - 1)) \cup (S(k - 1) \ S(k))) = 1
                  \* added iff n - |S| is even
                  /\ visited[k].added <=> ((n - Cardinality(S(k))) % 2 = 0)
                  \* not taken before
                  /\ \A j \in 1..(k - 1) : S(j) # S(k)
            /\ fn_pc = "done" =>
                  /\ frame.iters = (2 ^ n) - 1
                  /\ {S(k) : k \in 1..Len(visited)} = (SUBSET (0..(n - 1))) \ {{}}

\* C28: for n >= 1 the Gray-code loop of permanent_ryser terminates after
\* exactly 2^n - 1 iterations; each iteration flips one column, and every
\* non-empty column subset is visited exactly once, with the sign
\* (-1)^(n - |subset|).
C28_GrayCodeLoopVisitsEverySubsetOnce ==
    /\ []RyserLoopInvariant
    /\ <>(fn_pc = "done")

C28_Witness ==
    /\ fn_pc = "done" /\ fn_in.op = "permanent_ryser"
    /\ frame # <<>> /\ frame.ncol = 3 /\ frame.iters = 7
    /\ fn_in.nrow = 2

-----------------------------------------------------------------------------
(* Termination of the pair stage of APIG.generate_pspace (SpecPspaceFair)  *)

\* what every step of GenNext does to the control state of the run: the loop
\* counter rises by one while the run stays in the loop, or the run moves on
GenControlStep ==
    \/ /\ g_pc = "pairs"
       /\ g_pc' = "pairs"
       /\ num_excited' = num_excited + 1
    \/ /\ g_pc = "pairs"
       /\ g_pc' \in {"check", "done"}
       /\ num_excited' = num_excited
    \/ /\ g_pc = "check"
       /\ g_pc' \in {"done", "failed"}
       /\ num_excited' = num_excited

\* generate_pspace is a sequential program: a run that has not returned
\* takes its next step.  Every step of GenNext is a GenControlStep and
\* GenControlStep is enabled exactly while the run has not returned
\* (GenStepsAreControlSteps), so this is weak fairness of GenNext.
SpecPspaceFair == SpecPspace /\ WF_<<g_pc, num_excited>>(GenControlStep)

GenStepsAreControlSteps ==
    [][GenNext => GenControlStep /\ <<g_pc, num_excited>>' # <<g_pc, num_excited>>]_vars

\* the determinants the while loop has appended so far, after the seed
pair_stage_list ==
    IF g_pairs_len < 0 THEN list_sd ELSE Take(list_sd, g_pairs_len)

\* what holds of the while loop at every test of its condition
WidenInvariant ==
    g_kind = "APIG" =>
        /\ num_excited = g_iters + 1
        /\ g_iters <= g_npairs
        /\ NoDuplicates(pair_stage_list)

\* one iteration raises the excitation order and appends only determinants
\* the list does not hold
WidenStep ==
    APIG_Widen =>
        /\ num_excited' = num_excited + 1
        /\ num_excited <= g_npairs
        /\ \A k \in (Len(list_sd) + 1)..Len(list_sd') : list_sd'[k] \notin Range(list_sd)
        /\ SubSeq(list_sd', 1, Len(list_sd)) = list_sd

\* C29: for 1 <= npairs <= norbs the frontier-widening loop of
\* APIG.generate_pspace terminates: the excitation order rises by one in each
\* iteration and is bounded by the number of occupied pairs; no determinant
\* an iteration appends is appended again by a later one.
C29_WideningLoopTerminates ==
    /\ []WidenInvariant
    /\ [][WidenStep]_vars
    /\ <>(g_pc # "pairs")

C29_Witness ==
    /\ g_kind = "APIG" /\ g_pc = "check"
    /\ g_iters >= 2
    /\ g_pairs_len > 1 + g_npairs

=============================================================================
